---- MODULE Spec2Model ----
(***************************************************************************)
(* Model of image-gen-test-tool: the execution orchestrator               *)
(* (core/runner.py, cli.py), the auto-crop preprocessor                   *)
(* (core/services/generation.py) and the provider adapters                *)
(* (adapters/base.py, alibaba.py, google.py, glm.py).                     *)
(*                                                                         *)
(* Python strings are TLA+ strings (TLC evaluates Len, \o and SubSeq on   *)
(* them).  None is the string NoneStr.  JSON values are records of one    *)
(* shape, [t, s, n, keys, kids], so that any two of them can be compared. *)
(* Time is counted in ticks of time.monotonic(); one tick is one second.  *)
(***************************************************************************)
EXTENDS Integers, Sequences, FiniteSets, TLC

VARIABLES
    entry,            \* who calls the runner: "run_with_retry" or "cli_single"
    adapter,          \* the configured ProviderAdapter (fixed at construction)
    request,          \* the GenerationRequest handed to the runner
    max_retries,      \* MAX_RETRIES
    retry_delay,      \* RETRY_DELAY_SECONDS
    pc,               \* position of the orchestrator
    autocrop_enabled, \* is_alibaba_autocrop_enabled()
    persist_enabled,  \* _persist_preprocessed_input_enabled()
    source_image,     \* pixel size _load_source_image finds for the input
    prepared,         \* prepared_request of run_with_retry_with_artifacts
    cleanup_paths,    \* cleanup_paths of run_with_retry_with_artifacts
    files,            \* temporary files that exist on disk
    temp_image,       \* pixel size of the PNG written to the temporary file
    attempt,          \* loop variable of the retry loop
    calls,            \* adapter.generate invocations of this run
    sleeps,           \* time.sleep(retry_delay_seconds) calls of this run
    last_error,       \* last_error of the retry loop
    outcome,          \* how the orchestrator call ended: "", "returned", "raised"
    raised,           \* the exception the orchestrator call ended with
    response,         \* the GenerationResponse the run returned
    gpc,              \* position inside adapter.generate
    http,             \* HTTP exchanges of the current generate call, by kind
    gen_error,        \* the exception the current generate call ended with
    sync_exc,         \* exc of AlibabaAdapter.generate: the RuntimeError caught
    create_ok,        \* create_resp.ok of _generate_async
    create_raw,       \* create_raw of _generate_async
    task_id,          \* task_id of _generate_async
    poll_raw,         \* poll_raw of the last iteration of _poll_task
    poll_ok,          \* poll_resp.ok of the last iteration of _poll_task
    clock,            \* time.monotonic(), in ticks since _poll_task began
    deadline,         \* deadline of _poll_task
    reprepared,       \* prepare_request_for_execution applied to `prepared`
    call,             \* a function of the program called on its own
    result,           \* what that call returned or raised
    returned,         \* the value that call returned
    scan,             \* the byte scan of the image codec: parser, index, reads
    command,          \* the CLI command that loops: "batch" or "compare"
    entries,          \* its inputs in order: the prompts, or the targets
    finished,         \* entries whose loop iteration is over
    bpc,              \* position inside the loop body
    current,          \* what the orchestrator call of this iteration gave
    started,          \* entries whose orchestrator call was started, in order
    run_dirs,         \* entries whose run directory was written
    rows,             \* rows of _run_batch / _run_compare
    summary,          \* rows handed to summarize_results
    progress          \* _run_with_progress: quiet, the worker thread, state

vars == <<entry, adapter, request, max_retries, retry_delay,
          autocrop_enabled, persist_enabled, source_image, pc, prepared,
          cleanup_paths, files, temp_image, attempt, calls, sleeps, last_error, outcome,
          raised, response, gpc, http, gen_error, sync_exc, create_ok,
          create_raw, task_id,
          poll_raw, poll_ok, clock, deadline, reprepared, call, result,
          returned, scan,
          command, entries, finished, bpc, current, started, run_dirs, rows,
          summary, progress>>

-----------------------------------------------------------------------------
(* Bounds of the model. *)

MaxRetries == 1
MaxPollTimeout == 2
MaxGetTicks == 1
MaxSpins == 1

-----------------------------------------------------------------------------
(* Python strings. *)

NoneStr == "<None>"

Falsy(s) == s = NoneStr \/ s = ""

Min(a, b) == IF a < b THEN a ELSE b
Max(a, b) == IF a > b THEN a ELSE b

LowerChars == "abcdefghijklmnopqrstuvwxyz"
UpperChars == "ABCDEFGHIJKLMNOPQRSTUVWXYZ"
Whitespace == {" ", "\t", "\n", "\r"}

CharAt(s, i) == SubSeq(s, i, i)

\* The upper-case (lower-case) letter of each ASCII letter.
ToUpperMap ==
    [c \in {CharAt(LowerChars, i) : i \in 1..26} |->
        CharAt(UpperChars, CHOOSE i \in 1..26 : CharAt(LowerChars, i) = c)]
ToLowerMap ==
    [c \in {CharAt(UpperChars, i) : i \in 1..26} |->
        CharAt(LowerChars, CHOOSE i \in 1..26 : CharAt(UpperChars, i) = c)]

UpperChar(c) == IF c \in DOMAIN ToUpperMap THEN ToUpperMap[c] ELSE c

LowerChar(c) == IF c \in DOMAIN ToLowerMap THEN ToLowerMap[c] ELSE c

RECURSIVE StrUpper(_)
StrUpper(s) ==
    IF s = "" THEN ""
    ELSE IF Len(s) = 1 THEN UpperChar(s)
    ELSE LET half == Len(s) \div 2
         IN  StrUpper(SubSeq(s, 1, half)) \o StrUpper(SubSeq(s, half + 1, Len(s)))

RECURSIVE StrLower(_)
StrLower(s) ==
    IF s = "" THEN ""
    ELSE IF Len(s) = 1 THEN LowerChar(s)
    ELSE LET half == Len(s) \div 2
         IN  StrLower(SubSeq(s, 1, half)) \o StrLower(SubSeq(s, half + 1, Len(s)))

RECURSIVE LStrip(_)
LStrip(s) ==
    IF s = "" THEN ""
    ELSE IF Head(s) \in Whitespace THEN LStrip(Tail(s)) ELSE s

RECURSIVE RStrip(_)
RStrip(s) ==
    IF s = "" THEN ""
    ELSE IF CharAt(s, Len(s)) \in Whitespace
         THEN RStrip(SubSeq(s, 1, Len(s) - 1)) ELSE s

StrStrip(s) == RStrip(LStrip(s))

StartsWith(s, p) == Len(s) >= Len(p) /\ SubSeq(s, 1, Len(p)) = p

EndsWith(s, p) ==
    Len(s) >= Len(p) /\ SubSeq(s, Len(s) - Len(p) + 1, Len(s)) = p

Contains(s, p) ==
    \E i \in 1..(Len(s) - Len(p) + 1) : SubSeq(s, i, i + Len(p) - 1) = p

StrPrefix(s, k) == SubSeq(s, 1, Min(Len(s), k))

-----------------------------------------------------------------------------
(* JSON values, as response.json() returns them. *)

JNull == [t |-> "null", s |-> "", n |-> 0, keys |-> <<>>, kids |-> <<>>]
JStr(v) == [t |-> "str", s |-> v, n |-> 0, keys |-> <<>>, kids |-> <<>>]
JNum(v) == [t |-> "num", s |-> "", n |-> v, keys |-> <<>>, kids |-> <<>>]
JList(items) == [t |-> "list", s |-> "", n |-> 0, keys |-> <<>>, kids |-> items]
JDict(ks, vs) == [t |-> "dict", s |-> "", n |-> 0, keys |-> ks, kids |-> vs]

IsDict(v) == v.t = "dict"
IsStr(v) == v.t = "str"

HasKey(d, k) == \E i \in 1..Len(d.keys) : d.keys[i] = k

\* dict.get(k): the value under k, None when the key is absent.
DictGet(d, k) ==
    IF HasKey(d, k)
    THEN d.kids[CHOOSE i \in 1..Len(d.keys) : d.keys[i] = k]
    ELSE JNull

\* bool(raw) as `if not raw` evaluates it.
Truthy(v) ==
    CASE v.t = "null" -> FALSE
      [] v.t = "str" -> v.s # ""
      [] v.t = "num" -> v.n # 0
      [] v.t = "list" -> Len(v.kids) > 0
      [] v.t = "dict" -> Len(v.keys) > 0

\* str(raw): the text Python prints for the value.
RECURSIVE PyStr(_)
RECURSIVE PyStrItems(_, _)
PyStr(v) ==
    CASE v.t = "null" -> "None"
      [] v.t = "str" -> "'" \o v.s \o "'"
      [] v.t = "num" -> ToString(v.n)
      [] v.t = "list" -> "[" \o PyStrItems(v, 1) \o "]"
      [] v.t = "dict" -> "{" \o PyStrItems(v, 1) \o "}"
PyStrItems(v, i) ==
    IF i > Len(v.kids) THEN ""
    ELSE (IF i > 1 THEN ", " ELSE "")
         \o (IF v.t = "dict" THEN "'" \o v.keys[i] \o "': " ELSE "")
         \o PyStr(v.kids[i])
         \o PyStrItems(v, i + 1)

-----------------------------------------------------------------------------
(* Exceptions and HTTP responses. *)

NoError == [type |-> "", msg |-> ""]
Err(type, msg) == [type |-> type, msg |-> msg]

\* A requests.Response (transport_ok FALSE: the call raised a
\* ConnectionError instead of returning).  body is what response.json()
\* returns when is_json, text is response.text otherwise.
HttpResp(status, body) ==
    [transport_ok |-> TRUE, status |-> status, is_json |-> TRUE,
     body |-> body, text |-> ""]
HttpText(status, text) ==
    [transport_ok |-> TRUE, status |-> status, is_json |-> FALSE,
     body |-> JNull, text |-> text]
TransportFailure ==
    [transport_ok |-> FALSE, status |-> 0, is_json |-> FALSE,
     body |-> JNull, text |-> ""]

\* requests.Response.ok
RespOk(r) == r.status < 400

ConnectionError == Err("ConnectionError", "connection failed")

_json_or_text(r) ==
    IF r.is_json THEN r.body ELSE JDict(<<"raw_text">>, <<JStr(r.text)>>)

PreviewLen == 500

-----------------------------------------------------------------------------
(* adapters/base.py: the shared extraction. *)

ImageKeyMarks == {"image", "img", "url", "output", "result", "generated"}
Base64LenThreshold == 100

\* Mutant: a value under a base64 key is taken whatever its length.
_looks_like_image_any_length(key, value) ==
    LET low_key == StrLower(key)
        low_val == StrLower(value)
    IN  IF StartsWith(low_val, "http://") \/ StartsWith(low_val, "https://")
        THEN \E mark \in ImageKeyMarks : Contains(low_key, mark)
        ELSE IF StartsWith(low_val, "data:image/") THEN TRUE
        ELSE Contains(low_key, "b64") \/ Contains(low_key, "base64")

_looks_like_image(key, value) ==
    LET low_key == StrLower(key)
        low_val == StrLower(value)
    IN  IF StartsWith(low_val, "http://") \/ StartsWith(low_val, "https://")
        THEN \E mark \in ImageKeyMarks : Contains(low_key, mark)
        ELSE IF StartsWith(low_val, "data:image/") THEN TRUE
        ELSE IF Contains(low_key, "b64") \/ Contains(low_key, "base64")
             THEN Len(value) > Base64LenThreshold
        ELSE FALSE

RECURSIVE _walk_and_collect(_)
RECURSIVE WalkItems(_, _)

\* Mutant: a string in a list is classified under the key of the list.
RECURSIVE WalkUnder(_, _, _)
WalkUnder(key, node, i) ==
    IF i > Len(node.kids) THEN <<>>
    ELSE LET value == node.kids[i]
             name == IF node.t = "dict" THEN node.keys[i] ELSE key
         IN  (IF IsStr(value) /\ _looks_like_image(name, value.s)
              THEN <<value.s>>
              ELSE IF value.t \in {"dict", "list"}
                   THEN WalkUnder(name, value, 1) ELSE <<>>)
             \o WalkUnder(key, node, i + 1)
WalkItems_list_strings(node, i) == WalkUnder("", node, i)

_walk_and_collect(node) ==
    IF node.t \in {"dict", "list"} THEN WalkItems(node, 1) ELSE <<>>
WalkItems(node, i) ==
    IF i > Len(node.kids) THEN <<>>
    ELSE LET value == node.kids[i]
         IN  (IF node.t = "dict" /\ IsStr(value)
                  /\ _looks_like_image(node.keys[i], value.s)
              THEN <<value.s>>
              ELSE _walk_and_collect(value))
             \o WalkItems(node, i + 1)

\* Mutant: of equal items the last one is kept.
RECURSIVE Dedup_keep_last(_)
Dedup_keep_last(items) ==
    IF items = <<>> THEN <<>>
    ELSE LET rest == Dedup_keep_last(Tail(items))
         IN  IF \E i \in 1..Len(rest) : rest[i] = Head(items)
             THEN rest ELSE <<Head(items)>> \o rest

\* The de-duplication loop of extract_images: first occurrences, in order.
RECURSIVE Dedup(_)
Dedup(items) ==
    IF items = <<>> THEN <<>>
    ELSE LET front == Dedup(SubSeq(items, 1, Len(items) - 1))
             last == items[Len(items)]
         IN  IF \E i \in 1..Len(front) : front[i] = last
             THEN front ELSE Append(front, last)

extract_images(raw) ==
    IF ~Truthy(raw) THEN <<>> ELSE Dedup(_walk_and_collect(raw))

\* The first of `names` whose value in raw is a non-blank string, stripped;
\* "" when there is none (the caller then generates an identifier).
RECURSIVE FirstNonBlank(_, _)

\* Mutant: the value is returned as found, not stripped.
RECURSIVE FirstNonBlank_unstripped(_, _)
FirstNonBlank_unstripped(raw, names) ==
    IF names = <<>> THEN ""
    ELSE LET value == DictGet(raw, Head(names))
         IN  IF IsStr(value) /\ StrStrip(value.s) # ""
             THEN value.s
             ELSE FirstNonBlank_unstripped(raw, Tail(names))

FirstNonBlank(raw, names) ==
    IF names = <<>> THEN ""
    ELSE LET value == DictGet(raw, Head(names))
         IN  IF IsStr(value) /\ StrStrip(value.s) # ""
             THEN StrStrip(value.s)
             ELSE FirstNonBlank(raw, Tail(names))

UuidHex == {"0a1b2c3d4e5f", "ffeeddccbbaa"}

extract_request_id(raw, uid) ==
    LET found == IF IsDict(raw)
                 THEN FirstNonBlank(raw, <<"request_id", "id", "task_id">>)
                 ELSE ""
    IN  IF found # "" THEN found ELSE uid

-----------------------------------------------------------------------------
(* adapters/google.py: the extraction of the Google adapter. *)

google_extract_request_id(raw, uid) ==
    LET found == IF IsDict(raw)
                 THEN FirstNonBlank(raw,
                          <<"request_id", "id", "task_id", "responseId">>)
                 ELSE ""
    IN  IF found # "" THEN found ELSE uid

\* f"{mime}" of a JSON value.
Format(v) == IF IsStr(v) THEN v.s ELSE PyStr(v)

InlineOf(node, key) ==
    LET inline == DictGet(node, key)
        data == DictGet(inline, "data")
        mt == DictGet(inline, "mimeType")
        mt2 == DictGet(inline, "mime_type")
        mime == IF Truthy(mt) THEN Format(mt)
                ELSE IF Truthy(mt2) THEN Format(mt2) ELSE "image/png"
    IN  IF IsDict(inline) /\ IsStr(data) /\ data.s # ""
        THEN <<"data:" \o mime \o ";base64," \o data.s>>
        ELSE <<>>

RECURSIVE _walk_inline_data(_)
RECURSIVE InlineItems(_, _)
_walk_inline_data(node) ==
    IF node.t = "dict"
    THEN InlineOf(node, "inlineData") \o InlineOf(node, "inline_data")
         \o InlineItems(node, 1)
    ELSE IF node.t = "list" THEN InlineItems(node, 1)
    ELSE <<>>
InlineItems(node, i) ==
    IF i > Len(node.kids) THEN <<>>
    ELSE _walk_inline_data(node.kids[i]) \o InlineItems(node, i + 1)

google_extract_images(raw) ==
    Dedup(extract_images(raw) \o _walk_inline_data(raw))

-----------------------------------------------------------------------------
(* adapters/alibaba.py: task id and task status. *)

_extract_task_id(raw) ==
    IF ~IsDict(raw) THEN NoneStr
    ELSE LET output == DictGet(raw, "output")
             inner == DictGet(output, "task_id")
             outer == DictGet(raw, "task_id")
         IN  IF IsDict(output) /\ IsStr(inner) /\ StrStrip(inner.s) # ""
             THEN StrStrip(inner.s)
             ELSE IF IsStr(outer) /\ StrStrip(outer.s) # ""
                  THEN StrStrip(outer.s)
                  ELSE NoneStr

_extract_task_status(raw) ==
    IF ~IsDict(raw) THEN "UNKNOWN"
    ELSE LET output == DictGet(raw, "output")
             inner == DictGet(output, "task_status")
             outer == DictGet(raw, "task_status")
         IN  IF IsDict(output) /\ IsStr(inner) THEN StrUpper(inner.s)
             ELSE IF IsStr(outer) THEN StrUpper(outer.s)
             ELSE "UNKNOWN"

SuccessStatuses == {"SUCCEEDED", "SUCCESS"}
FailureStatuses == {"FAILED", "CANCELED", "CANCELLED"}

-----------------------------------------------------------------------------
(* core/models.py, core/io_utils.py: requests and input images. *)

TASK_TEXT2IMAGE == "text_to_image"
TASK_IMAGE2IMAGE == "image_to_image"

Req(provider, task_type, input_image, size) ==
    [provider |-> provider, model |-> "m1", task_type |-> task_type,
     prompt |-> "A cat", input_image |-> input_image, size |-> size]

ProviderType == {"alibaba", "google", "glm"}
TaskType == {TASK_TEXT2IMAGE, TASK_IMAGE2IMAGE}

\* `not value.strip()` of the field validators
IsBlank(value) == StrStrip(value) = ""

\* The field validators of GenerationRequest, in field order: the messages
\* of the fields that fail.
FieldErrors(f) ==
    (IF f.provider \notin ProviderType
     THEN <<"provider: Input should be 'alibaba', 'google' or 'glm'">>
     ELSE <<>>)
    \o (IF f.model = ""
        THEN <<"model: String should have at least 1 character">>
        ELSE IF IsBlank(f.model)
             THEN <<"model: Value error, value must not be blank">>
             ELSE <<>>)
    \o (IF f.task_type \notin TaskType
        THEN <<"task_type: Input should be 'text_to_image' or 'image_to_image'">>
        ELSE <<>>)
    \o (IF f.prompt = ""
        THEN <<"prompt: String should have at least 1 character">>
        ELSE IF IsBlank(f.prompt)
             THEN <<"prompt: Value error, value must not be blank">>
             ELSE <<>>)
    \o (IF f.size # NoneStr /\ IsBlank(f.size)
        THEN <<"size: Value error, size must not be blank">>
        ELSE <<>>)

\* GenerationRequest.ensure_task_fields, run after the fields validated.
ensure_task_fields(f) ==
    IF f.task_type = TASK_IMAGE2IMAGE /\ Falsy(f.input_image)
    THEN <<"Value error, input_image is required for image_to_image">>
    ELSE <<>>

\* GenerationRequest(**f): the request, or the validation errors raised.
GenerationRequest(f) ==
    LET errors == IF FieldErrors(f) # <<>> THEN FieldErrors(f)
                  ELSE ensure_task_fields(f)
    IN  [ok |-> errors = <<>>, errors |-> errors]

\* Files that exist before the run, and the path mkstemp returns.
LocalFiles == {"in.png"}
TmpPath == "/tmp/igt_autocrop_1.png"

is_url(value) == StartsWith(value, "http://") \/ StartsWith(value, "https://")

\* parse_input_image, with `existing` the files on disk; kind "" is None.
\* The base64 of a file's bytes is the text FileB64.
FileB64 == "RklMRQ=="
parse_input_image(value, existing) ==
    IF Falsy(value) THEN [kind |-> "", value |-> ""]
    ELSE IF is_url(value) THEN [kind |-> "url", value |-> value]
    ELSE IF StartsWith(value, "data:image/")
         THEN [kind |-> "data_uri", value |-> value]
    ELSE IF value \in existing
         THEN [kind |-> "data_uri",
               value |-> "data:image/png;base64," \o FileB64]
    ELSE [kind |-> "base64", value |-> value]

-----------------------------------------------------------------------------
(* core/services/generation.py: the auto-crop preprocessor. *)

ALIBABA_IMAGE_MIN == 512
ALIBABA_IMAGE_MAX == 2048

Digits == "0123456789"

IsDigitChar(c) == \E i \in 1..10 : CharAt(Digits, i) = c
DigitVal(c) == (CHOOSE i \in 1..10 : CharAt(Digits, i) = c) - 1

\* str.isdigit() on ASCII text
IsDigit(s) == s # "" /\ \A i \in 1..Len(s) : IsDigitChar(CharAt(s, i))

RECURSIVE ParseInt(_)
ParseInt(s) ==
    IF s = "" THEN 0
    ELSE 10 * ParseInt(SubSeq(s, 1, Len(s) - 1)) + DigitVal(CharAt(s, Len(s)))

NoSize == <<0, 0>>

\* _parse_size: NoSize is None
_parse_size(value) ==
    IF Falsy(value) THEN NoSize
    ELSE LET text == StrLower(StrStrip(value))
         IN  IF ~Contains(text, "x") THEN NoSize
             ELSE LET k == CHOOSE i \in 1..Len(text) :
                               /\ CharAt(text, i) = "x"
                               /\ \A j \in 1..(i - 1) : CharAt(text, j) # "x"
                      left == SubSeq(text, 1, k - 1)
                      right == SubSeq(text, k + 1, Len(text))
                  IN  IF ~(IsDigit(left) /\ IsDigit(right)) THEN NoSize
                      ELSE IF ParseInt(left) <= 0 \/ ParseInt(right) <= 0
                           THEN NoSize
                           ELSE <<ParseInt(left), ParseInt(right)>>

_clamp_size(width, height) ==
    <<Max(ALIBABA_IMAGE_MIN, Min(ALIBABA_IMAGE_MAX, width)),
      Max(ALIBABA_IMAGE_MIN, Min(ALIBABA_IMAGE_MAX, height))>>

RECURSIVE GCD(_, _)
GCD(a, b) == IF b = 0 THEN a ELSE GCD(b, a % b)

\* Mutant: the fraction is cut off.
RoundDown(a, d) == a \div d

\* int(round(a / d)): Python rounds halves to the even neighbour.
RoundHalfEven(a, d) ==
    LET q == a \div d
        r == a % d
    IN  IF 2 * r < d THEN q
        ELSE IF 2 * r > d THEN q + 1
        ELSE IF q % 2 = 0 THEN q ELSE q + 1

\* Mutant: the scaled size is not clamped at the end.
_fit_size_within_bounds_unclamped(width, height) ==
    IF width <= 0 \/ height <= 0
    THEN <<ALIBABA_IMAGE_MIN, ALIBABA_IMAGE_MIN>>
    ELSE LET down == width > ALIBABA_IMAGE_MAX \/ height > ALIBABA_IMAGE_MAX
             a1 == IF down THEN width * ALIBABA_IMAGE_MAX ELSE width
             b1 == IF down THEN height * ALIBABA_IMAGE_MAX ELSE height
             d1 == IF down THEN Max(width, height) ELSE 1
             up == a1 < ALIBABA_IMAGE_MIN * d1 \/ b1 < ALIBABA_IMAGE_MIN * d1
             g == GCD(a1, b1)
             a2 == IF up THEN (a1 \div g) * ALIBABA_IMAGE_MIN ELSE a1
             b2 == IF up THEN (b1 \div g) * ALIBABA_IMAGE_MIN ELSE b1
             d2 == IF up THEN Min(a1, b1) \div g ELSE d1
         IN  <<RoundHalfEven(a2, d2), RoundHalfEven(b2, d2)>>

\* _fit_size_within_bounds.  w and h are the fractions a/d and b/d: the
\* scale factors MAX/max(w, h) and MIN/min(w, h) are applied exactly.
_fit_size_within_bounds(width, height) ==
    IF width <= 0 \/ height <= 0
    THEN <<ALIBABA_IMAGE_MIN, ALIBABA_IMAGE_MIN>>
    ELSE LET down == width > ALIBABA_IMAGE_MAX \/ height > ALIBABA_IMAGE_MAX
             a1 == IF down THEN width * ALIBABA_IMAGE_MAX ELSE width
             b1 == IF down THEN height * ALIBABA_IMAGE_MAX ELSE height
             d1 == IF down THEN Max(width, height) ELSE 1
             up == a1 < ALIBABA_IMAGE_MIN * d1 \/ b1 < ALIBABA_IMAGE_MIN * d1
             g == GCD(a1, b1)
             a2 == IF up THEN (a1 \div g) * ALIBABA_IMAGE_MIN ELSE a1
             b2 == IF up THEN (b1 \div g) * ALIBABA_IMAGE_MIN ELSE b1
             d2 == IF up THEN Min(a1, b1) \div g ELSE d1
         IN  _clamp_size(RoundHalfEven(a2, d2), RoundHalfEven(b2, d2))

\* Mutant: a requested size equal to the source is clamped, not fitted.
_resolve_target_size_clamp_equal(source_width, source_height, requested_size) ==
    IF requested_size = NoSize
    THEN _fit_size_within_bounds(source_width, source_height)
    ELSE _clamp_size(requested_size[1], requested_size[2])

\* Mutant: the source is fitted whatever size is requested.
_resolve_target_size_always_fit(source_width, source_height, requested_size) ==
    _fit_size_within_bounds(source_width, source_height)

_resolve_target_size(source_width, source_height, requested_size) ==
    IF requested_size = NoSize
       \/ requested_size = <<source_width, source_height>>
    THEN _fit_size_within_bounds(source_width, source_height)
    ELSE _clamp_size(requested_size[1], requested_size[2])

SizeText(size) == ToString(size[1]) \o "x" \o ToString(size[2])

\* What _load_source_image can return for the input: NoSize when the image
\* cannot be loaded or decoded, else its pixel size.
SourceImages == {NoSize, <<1024, 1024>>, <<3242, 2160>>}

\* _center_crop_and_resize: the crop box taken from the source and the
\* pixel size of the resized image.
_center_crop_and_resize(source, target_width, target_height) ==
    LET source_width == source[1]
        source_height == source[2]
        wide == source_width * target_height > target_width * source_height
        crop_width ==
            Max(1, Min(source_width,
                       IF wide
                       THEN RoundHalfEven(source_height * target_width,
                                          target_height)
                       ELSE source_width))
        crop_height ==
            Max(1, Min(source_height,
                       IF wide THEN source_height
                       ELSE RoundHalfEven(source_width * target_height,
                                          target_width)))
        left == Max(0, (source_width - crop_width) \div 2)
        top == Max(0, (source_height - crop_height) \div 2)
    IN  [box |-> <<left, top, left + crop_width, top + crop_height>>,
         size |-> <<target_width, target_height>>]

\* tempfile.mkstemp: a path that no existing file has.
mkstemp(existing) ==
    IF TmpPath \notin existing THEN TmpPath ELSE "/tmp/igt_autocrop_2.png"

\* Mutant: the auto-crop flag is not read.
prepare_request_for_execution_flag_ignored(req, autocrop, persist, source, tmp) ==
    IF req.task_type # TASK_IMAGE2IMAGE \/ req.provider # "alibaba"
       \/ Falsy(req.input_image) \/ source = NoSize
    THEN [request |-> req, cleanup |-> <<>>, image |-> NoSize]
    ELSE LET target == _resolve_target_size(source[1], source[2],
                                            _parse_size(req.size))
             sized == [req EXCEPT !.size = SizeText(target)]
         IN  IF source = target
             THEN IF ~persist
                  THEN [request |-> sized, cleanup |-> <<>>,
                        image |-> NoSize]
                  ELSE [request |-> [sized EXCEPT !.input_image = tmp],
                        cleanup |-> <<tmp>>, image |-> source]
             ELSE [request |-> [sized EXCEPT !.input_image = tmp],
                   cleanup |-> <<tmp>>,
                   image |-> _center_crop_and_resize(source, target[1],
                                                     target[2]).size]

\* Mutant: a source of the target's size is copied whatever the
\* persistence flag says.
prepare_request_for_execution_always_copy(req, autocrop, persist, source, tmp) ==
    IF req.task_type # TASK_IMAGE2IMAGE \/ req.provider # "alibaba"
       \/ Falsy(req.input_image) \/ ~autocrop \/ source = NoSize
    THEN [request |-> req, cleanup |-> <<>>, image |-> NoSize]
    ELSE LET target == _resolve_target_size(source[1], source[2],
                                            _parse_size(req.size))
             sized == [req EXCEPT !.size = SizeText(target)]
         IN  IF source = target
             THEN [request |-> [sized EXCEPT !.input_image = tmp],
                   cleanup |-> <<tmp>>, image |-> source]
             ELSE [request |-> [sized EXCEPT !.input_image = tmp],
                   cleanup |-> <<tmp>>,
                   image |-> _center_crop_and_resize(source, target[1],
                                                     target[2]).size]

\* Mutant: the cropped file is not put on the cleanup list.
prepare_request_for_execution_no_cleanup(req, autocrop, persist, source, tmp) ==
    IF req.task_type # TASK_IMAGE2IMAGE \/ req.provider # "alibaba"
       \/ Falsy(req.input_image) \/ ~autocrop \/ source = NoSize
    THEN [request |-> req, cleanup |-> <<>>, image |-> NoSize]
    ELSE LET target == _resolve_target_size(source[1], source[2],
                                            _parse_size(req.size))
             sized == [req EXCEPT !.size = SizeText(target)]
         IN  IF source = target
             THEN IF ~persist
                  THEN [request |-> sized, cleanup |-> <<>>,
                        image |-> NoSize]
                  ELSE [request |-> [sized EXCEPT !.input_image = tmp],
                        cleanup |-> <<tmp>>, image |-> source]
             ELSE [request |-> [sized EXCEPT !.input_image = tmp],
                   cleanup |-> <<>>,
                   image |-> _center_crop_and_resize(source, target[1],
                                                     target[2]).size]

\* prepare_request_for_execution.  autocrop and persist are the two
\* environment flags, source what _load_source_image returned, tmp the path
\* mkstemp returns; image is the pixel size of the PNG written to tmp.
prepare_request_for_execution(req, autocrop, persist, source, tmp) ==
    IF req.task_type # TASK_IMAGE2IMAGE \/ req.provider # "alibaba"
       \/ Falsy(req.input_image) \/ ~autocrop \/ source = NoSize
    THEN [request |-> req, cleanup |-> <<>>, image |-> NoSize]
    ELSE LET target == _resolve_target_size(source[1], source[2],
                                            _parse_size(req.size))
             sized == [req EXCEPT !.size = SizeText(target)]
         IN  IF source = target
             THEN IF ~persist
                  THEN [request |-> sized, cleanup |-> <<>>,
                        image |-> NoSize]
                  ELSE [request |-> [sized EXCEPT !.input_image = tmp],
                        cleanup |-> <<tmp>>, image |-> source]
             ELSE [request |-> [sized EXCEPT !.input_image = tmp],
                   cleanup |-> <<tmp>>,
                   image |-> _center_crop_and_resize(source, target[1],
                                                     target[2]).size]

-----------------------------------------------------------------------------
(* adapters/base.py, alibaba.py, google.py, glm.py: configuration. *)

Adapter(provider, api_key, sync_url, async_mode, async_url, interval, timeout) ==
    [provider |-> provider, api_key |-> api_key,
     text2image_url |-> sync_url, image2image_url |-> sync_url,
     async_mode |-> async_mode, async_url |-> async_url,
     poll_interval_seconds |-> interval, poll_timeout_seconds |-> timeout]

\* _resolve_url: the target URL, or the ValueError it raises.
_resolve_url(a, task_type) ==
    LET target == IF task_type = TASK_TEXT2IMAGE THEN a.text2image_url
                  ELSE a.image2image_url
    IN  IF task_type \notin {TASK_TEXT2IMAGE, TASK_IMAGE2IMAGE}
        THEN [error |-> Err("ValueError",
                            "Unsupported task_type: " \o task_type),
              url |-> ""]
        ELSE IF target = ""
        THEN [error |-> Err("ValueError",
                            "Missing endpoint URL for " \o a.provider
                            \o ":" \o task_type),
              url |-> ""]
        ELSE [error |-> NoError, url |-> target]

KeyName(a) ==
    CASE a.provider = "alibaba" -> "ALIBABA_API_KEY"
      [] a.provider = "google" -> "GOOGLE_API_KEY"
      [] a.provider = "glm" -> "GLM_API_KEY"

\* build_headers: NoError, or the ValueError it raises.
build_headers(a) ==
    IF a.api_key = "" THEN Err("ValueError", KeyName(a) \o " is missing")
    ELSE NoError

-----------------------------------------------------------------------------
(* The result of one step of adapter.generate. *)

NoResponse ==
    [request_id |-> "", provider |-> "", model |-> "", task_type |-> "",
     images |-> <<>>, raw_response |-> JNull]

GenerationResponse(request_id, req, images, raw) ==
    [request_id |-> request_id, provider |-> req.provider,
     model |-> req.model, task_type |-> req.task_type,
     images |-> images, raw_response |-> raw]

\* kind: "return" (a response), "raise" (an exception) or "goto" (generate
\* goes on at position next); posted: the HTTP request was sent.
Return(resp) ==
    [kind |-> "return", response |-> resp, error |-> NoError,
     next |-> "idle", posted |-> TRUE]
Raise(e, sent) ==
    [kind |-> "raise", response |-> NoResponse, error |-> e,
     next |-> "idle", posted |-> sent]
Goto(position) ==
    [kind |-> "goto", response |-> NoResponse, error |-> NoError,
     next |-> position, posted |-> TRUE]

ApiError(a, what, r, raw) ==
    Err("RuntimeError",
        a.provider \o what \o " status=" \o ToString(r.status)
        \o " body=" \o StrPrefix(PyStr(raw), PreviewLen))

\* ProviderAdapter.generate (base.py), with r the answer to the POST and
\* uid the identifier uuid4 would give.  Used by the GLM adapter as it is.
base_generate(a, req, r, uid) ==
    LET url == _resolve_url(a, req.task_type)
        headers == build_headers(a)
        raw == _json_or_text(r)
    IN  IF url.error # NoError THEN Raise(url.error, FALSE)
        ELSE IF headers # NoError THEN Raise(headers, FALSE)
        ELSE IF ~r.transport_ok THEN Raise(ConnectionError, TRUE)
        ELSE IF ~RespOk(r) THEN Raise(ApiError(a, " API error", r, raw), TRUE)
        ELSE Return(GenerationResponse(extract_request_id(raw, uid), req,
                                       extract_images(raw), raw))

SyncUnsupported == "does not support synchronous calls"

\* Mutant: the fallback is taken on every RuntimeError of the synchronous
\* attempt.
alibaba_generate_sync_any_error(a, req, r, uid) ==
    LET first == base_generate(a, req, r, uid)
    IN  IF first.kind = "raise" /\ first.error.type = "RuntimeError"
        THEN Goto("async")
        ELSE first

\* AlibabaAdapter.generate with async_mode unset: the synchronous attempt
\* and the decision to fall back to _generate_async.
alibaba_generate_sync(a, req, r, uid) ==
    LET first == base_generate(a, req, r, uid)
    IN  IF first.kind = "raise" /\ first.error.type = "RuntimeError"
           /\ Contains(first.error.msg, SyncUnsupported)
        THEN Goto("async")
        ELSE first

\* AlibabaAdapter.generate: where the call starts.
alibaba_generate_entry(a) == IF a.async_mode THEN "async" ELSE "sync"

\* str.replace(old, new): every occurrence, left to right.
RECURSIVE StrReplace(_, _, _)
StrReplace(s, old, new) ==
    IF Len(s) < Len(old) THEN s
    ELSE IF StartsWith(s, old)
         THEN new \o StrReplace(SubSeq(s, Len(old) + 1, Len(s)), old, new)
         ELSE Head(s) \o StrReplace(Tail(s), old, new)

_derive_async_url(url) ==
    StrReplace(url, "/multimodal-generation/", "/image-generation/")

\* create_url of _generate_async, or the ValueError of _resolve_url.
CreateUrl(a, task_type) ==
    LET sync == _resolve_url(a, task_type)
    IN  IF a.async_url # "" THEN [error |-> NoError, url |-> a.async_url]
        ELSE IF sync.error # NoError THEN sync
        ELSE [error |-> NoError, url |-> _derive_async_url(sync.url)]

\* _build_task_url: scheme and netloc of the create URL as urlsplit finds
\* them, then the fixed path and the task id.
_build_task_url(create_url, tid) ==
    LET n == Len(create_url)
        colon == CHOOSE k \in 1..(n + 1) :
                    /\ k = n + 1 \/ SubSeq(create_url, k, k + 2) = "://"
                    /\ \A j \in 1..(k - 1) :
                          SubSeq(create_url, j, j + 2) # "://"
        stop == CHOOSE k \in (colon + 3)..(n + 1) :
                    /\ k = n + 1 \/ CharAt(create_url, k) \in {"/", "?", "#"}
                    /\ \A j \in (colon + 3)..(k - 1) :
                          CharAt(create_url, j) \notin {"/", "?", "#"}
    IN  IF colon > n THEN ":///api/v1/tasks/" \o tid
        ELSE SubSeq(create_url, 1, colon - 1) \o "://"
             \o SubSeq(create_url, colon + 3, stop - 1)
             \o "/api/v1/tasks/" \o tid

\* Mutant: the create response is not checked for a task id.
_generate_async_create_unchecked_id(a, req, r) ==
    LET url == CreateUrl(a, req.task_type)
        headers == build_headers(a)
        raw == _json_or_text(r)
    IN  IF url.error # NoError THEN Raise(url.error, FALSE)
        ELSE IF headers # NoError THEN Raise(headers, FALSE)
        ELSE IF ~r.transport_ok THEN Raise(ConnectionError, TRUE)
        ELSE IF ~RespOk(r)
             THEN Raise(ApiError(a, " async create error", r, raw), TRUE)
        ELSE Goto("poll")

\* _generate_async up to the create POST and the task id, with r the
\* answer to the POST.
_generate_async_create(a, req, r) ==
    LET url == CreateUrl(a, req.task_type)
        headers == build_headers(a)
        raw == _json_or_text(r)
    IN  IF url.error # NoError THEN Raise(url.error, FALSE)
        ELSE IF headers # NoError THEN Raise(headers, FALSE)
        ELSE IF ~r.transport_ok THEN Raise(ConnectionError, TRUE)
        ELSE IF ~RespOk(r)
             THEN Raise(ApiError(a, " async create error", r, raw), TRUE)
        ELSE IF _extract_task_id(raw) = NoneStr
             THEN Raise(Err("RuntimeError",
                            a.provider \o " async create missing task_id: "
                            \o PyStr(raw)), TRUE)
        ELSE Goto("poll")

\* Mutant: the loop of _poll_task has no deadline.
PollLoopForever(now, limit) == TRUE

\* Mutant: the loop still runs at the deadline.
PollLoopContinues_inclusive(now, limit) == now <= limit

\* The loop condition of _poll_task.
PollLoopContinues(now, limit) == now < limit

\* Mutant: the images are taken from the create body.
_poll_task_step_create_images(a, req, tid, created, r) ==
    LET raw == _json_or_text(r)
        status == _extract_task_status(raw)
    IN  IF ~r.transport_ok THEN Raise(ConnectionError, TRUE)
        ELSE IF ~RespOk(r)
             THEN Raise(ApiError(a, " async poll error", r, raw), TRUE)
        ELSE IF status \in SuccessStatuses
             THEN Return(GenerationResponse(tid, req, extract_images(created),
                         JDict(<<"create_task", "task_result">>,
                               <<created, raw>>)))
        ELSE IF status \in FailureStatuses
             THEN Raise(Err("RuntimeError",
                            a.provider \o " async task failed: "
                            \o PyStr(raw)), TRUE)
        ELSE IF a.poll_interval_seconds < 0
             THEN Raise(Err("ValueError",
                            "sleep length must be non-negative"), TRUE)
        ELSE Goto("poll")

\* Mutant: a failed task is polled again like a running one.
_poll_task_step_failure_ignored(a, req, tid, created, r) ==
    LET raw == _json_or_text(r)
        status == _extract_task_status(raw)
    IN  IF ~r.transport_ok THEN Raise(ConnectionError, TRUE)
        ELSE IF ~RespOk(r)
             THEN Raise(ApiError(a, " async poll error", r, raw), TRUE)
        ELSE IF status \in SuccessStatuses
             THEN Return(GenerationResponse(tid, req, extract_images(raw),
                         JDict(<<"create_task", "task_result">>,
                               <<created, raw>>)))
        ELSE IF a.poll_interval_seconds < 0
             THEN Raise(Err("ValueError",
                            "sleep length must be non-negative"), TRUE)
        ELSE Goto("poll")

\* One iteration of _poll_task after the GET, up to time.sleep: r is the
\* answer to the GET.  _generate_async builds the response on success.
_poll_task_step(a, req, tid, created, r) ==
    LET raw == _json_or_text(r)
        status == _extract_task_status(raw)
    IN  IF ~r.transport_ok THEN Raise(ConnectionError, TRUE)
        ELSE IF ~RespOk(r)
             THEN Raise(ApiError(a, " async poll error", r, raw), TRUE)
        ELSE IF status \in SuccessStatuses
             THEN Return(GenerationResponse(tid, req, extract_images(raw),
                         JDict(<<"create_task", "task_result">>,
                               <<created, raw>>)))
        ELSE IF status \in FailureStatuses
             THEN Raise(Err("RuntimeError",
                            a.provider \o " async task failed: "
                            \o PyStr(raw)), TRUE)
        ELSE IF a.poll_interval_seconds < 0
             THEN Raise(Err("ValueError",
                            "sleep length must be non-negative"), TRUE)
        ELSE Goto("poll")

\* Mutant: the deadline is reported with the error type of a failed task.
PollTimeoutError_as_runtime(a) ==
    Err("RuntimeError",
        a.provider \o " async task poll timeout after "
        \o ToString(a.poll_timeout_seconds) \o "s")

PollTimeoutError(a) ==
    Err("TimeoutError",
        a.provider \o " async task poll timeout after "
        \o ToString(a.poll_timeout_seconds) \o "s")

\* GoogleAdapter.build_payload / _to_inline_data up to the first HTTP call:
\* the ValueError raised, and whether the input image has to be fetched.
google_prelude(a, req, existing) ==
    LET url == _resolve_url(a, req.task_type)
        info == parse_input_image(req.input_image, existing)
    IN  IF url.error # NoError THEN [error |-> url.error, fetch |-> FALSE]
        ELSE IF req.task_type # TASK_IMAGE2IMAGE
             THEN [error |-> NoError, fetch |-> FALSE]
        ELSE IF info.kind = ""
             THEN [error |-> Err("ValueError",
                                 "input_image is required for image_to_image"),
                   fetch |-> FALSE]
        ELSE IF info.kind = "data_uri" /\ ~Contains(info.value, ",")
             THEN [error |-> Err("ValueError",
                                 "Invalid data URI for input_image"),
                   fetch |-> FALSE]
        ELSE [error |-> NoError, fetch |-> info.kind = "url"]

\* _to_inline_data for a URL: r is the answer to the GET.
google_fetch(r) ==
    IF ~r.transport_ok THEN Raise(ConnectionError, TRUE)
    ELSE IF r.status >= 400
         THEN Raise(Err("HTTPError", ToString(r.status) \o " Error"), TRUE)
    ELSE Goto("google_fetched")

\* GoogleAdapter.generate from build_headers on, with r the answer to the
\* POST.
google_generate(a, req, existing, r, uid) ==
    LET pre == google_prelude(a, req, existing)
        headers == build_headers(a)
        raw == _json_or_text(r)
    IN  IF pre.error # NoError THEN Raise(pre.error, FALSE)
        ELSE IF headers # NoError THEN Raise(headers, FALSE)
        ELSE IF ~r.transport_ok THEN Raise(ConnectionError, TRUE)
        ELSE IF ~RespOk(r) THEN Raise(ApiError(a, " API error", r, raw), TRUE)
        ELSE Return(GenerationResponse(google_extract_request_id(raw, uid),
                                       req, google_extract_images(raw), raw))

-----------------------------------------------------------------------------
(* What the providers can answer. *)

ImageBody ==
    JDict(<<"id", "output">>,
          <<JStr("req_1"),
            JDict(<<"image_url">>, <<JStr("https://c/a.png")>>)>>)

GoogleBody ==
    JDict(<<"responseId", "candidates">>,
          <<JStr("r9"),
            JList(<<JDict(<<"inlineData">>,
                          <<JDict(<<"mimeType", "data">>,
                                  <<JStr("image/png"), JStr("aGk=")>>)>>)>>)>>)

SyncUnsupportedBody ==
    JDict(<<"code", "message">>,
          <<JStr("InvalidParameter"),
            JStr("url does not support synchronous calls")>>)

BadRequestBody ==
    JDict(<<"error">>, <<JDict(<<"message">>, <<JStr("bad request")>>)>>)

PostResponses ==
    {TransportFailure,
     HttpResp(200, ImageBody),
     HttpResp(200, GoogleBody),
     HttpResp(200, SyncUnsupportedBody),
     HttpResp(400, SyncUnsupportedBody),
     HttpResp(400, BadRequestBody),
     HttpText(500, "oops")}

TaskBody(inner, outer) ==
    JDict(<<"output", "task_id">>, <<JDict(<<"task_id">>, <<inner>>), outer>>)

CreateResponses ==
    {TransportFailure,
     HttpResp(200, JDict(<<"output">>,
                         <<JDict(<<"task_id">>, <<JStr("task_1")>>)>>)),
     HttpResp(200, TaskBody(JStr("  "), JStr(" task_2 "))),
     HttpResp(200, JDict(<<"output", "task_id">>,
                         <<JDict(<<"task_id", "image_url">>,
                                 <<JStr("task_1"), JStr("https://c/c.png")>>),
                           JStr("task_2")>>)),
     HttpResp(200, TaskBody(JNum(7), JStr(""))),
     HttpResp(400, TaskBody(JStr("task_1"), JStr("task_2"))),
     HttpText(502, "bad gateway")}

StatusBody(inner, outer) ==
    JDict(<<"output", "task_status">>,
          <<JDict(<<"task_status">>, <<inner>>), outer>>)

PollResponses ==
    {TransportFailure,
     HttpResp(200, JDict(<<"output", "result">>,
                         <<JDict(<<"task_status">>, <<JStr("SUCCEEDED")>>),
                           JDict(<<"image_url">>,
                                 <<JStr("https://c/async.png")>>)>>)),
     HttpResp(200, JDict(<<"task_status">>, <<JStr("success")>>)),
     HttpResp(200, StatusBody(JStr("Failed"), JNull)),
     HttpResp(200, StatusBody(JNum(3), JStr("canceled"))),
     HttpResp(200, JDict(<<"task_status">>, <<JStr("CANCELLED")>>)),
     HttpResp(200, StatusBody(JStr("RUNNING"), JStr("FAILED"))),
     HttpResp(200, JDict(<<"output">>, <<JDict(<<>>, <<>>)>>)),
     HttpResp(500, StatusBody(JStr("SUCCEEDED"), JNull)),
     HttpResp(200, StatusBody(JNum(3), JNull)),
     HttpText(304, ""),
     HttpText(200, "pending")}

FetchResponses == {TransportFailure, HttpText(200, "PNG"), HttpText(404, "")}

-----------------------------------------------------------------------------
(* The configurations and requests of a run. *)

ApiKeys == {"", "k"}
SyncUrls == {"", "https://h/multimodal-generation/g"}
AsyncUrls == {"", "https://h/async"}
PollIntervals == {-1, 0, 1}
RetryDelays == {-1, 1}
Entries == {"run_with_retry", "cli_single"}

InputImages ==
    {"https://i/in.png", "data:image/png;base64,aGk=", "data:image/png",
     "in.png", "aGk="}

Providers == {"alibaba", "google", "glm"}

\* The runs explored: every configuration of every adapter with the
\* requests that reach its branches, the requests the preprocessor rewrites,
\* and the poll settings of the asynchronous path.
Run(a, req, retries, delay, caller) ==
    [adapter |-> a, request |-> req, max_retries |-> retries,
     retry_delay |-> delay, entry |-> caller]

Requests(provider) ==
    {Req(provider, TASK_TEXT2IMAGE, NoneStr, NoneStr),
     Req(provider, "video", NoneStr, NoneStr)}
    \cup {Req(provider, TASK_IMAGE2IMAGE, image, NoneStr) :
            image \in CASE provider = "google" -> InputImages
                        [] provider = "glm" -> {"in.png"}
                        [] provider = "alibaba" -> {}}

Adapters(provider) ==
    IF provider = "alibaba"
    THEN {Adapter(provider, k, u, m, au, 0, 1) :
            k \in ApiKeys, u \in SyncUrls, m \in BOOLEAN, au \in AsyncUrls}
    ELSE {Adapter(provider, k, u, FALSE, "", 0, 0) :
            k \in ApiKeys, u \in SyncUrls}

ConfigurationRuns ==
    UNION {{Run(a, req, retries, delay, caller) :
              a \in Adapters(p), req \in Requests(p),
              retries \in -1..MaxRetries, delay \in RetryDelays,
              caller \in Entries} : p \in Providers}

PreprocessingRuns ==
    {Run(Adapter("alibaba", k, "https://h/multimodal-generation/g", FALSE,
                 "https://h/async", 0, 1),
         Req("alibaba", TASK_IMAGE2IMAGE, "in.png", size),
         retries, delay, caller) :
       k \in ApiKeys, size \in {NoneStr, "1024x1024"},
       retries \in -1..MaxRetries, delay \in RetryDelays, caller \in Entries}

PollingRuns ==
    {Run(Adapter("alibaba", "k", "https://h/multimodal-generation/g", m,
                 "https://h/async", i, t),
         Req("alibaba", TASK_TEXT2IMAGE, NoneStr, NoneStr),
         retries, 0, "run_with_retry") :
       m \in BOOLEAN, i \in PollIntervals, t \in -1..MaxPollTimeout,
       retries \in {0, MaxRetries}}

Runs == ConfigurationRuns \cup PreprocessingRuns \cup PollingRuns

\* http: the requests sent by the current generate call, by kind, the poll
\* answers among them that reported a terminal task status, task_url of
\* _generate_async, which every poll GET goes to, and the status code of the
\* last poll (0: no answer).
NoCalls ==
    [sync_post |-> 0, create_post |-> 0, poll_get |-> 0, fetch_get |-> 0,
     terminal |-> 0, poll_url |-> "", poll_status |-> 0]

-----------------------------------------------------------------------------
(* The state machine. *)

config == <<entry, adapter, request, max_retries, retry_delay,
           autocrop_enabled, persist_enabled, source_image>>
prep == <<prepared, cleanup_paths, files, temp_image>>
pure == <<call, result, returned, scan>>
batch == <<command, entries, finished, bpc, current, started, run_dirs, rows,
           summary, progress>>
\* What the orchestrator call leaves alone.
apart == <<reprepared, pure, batch>>
poller == <<sync_exc, create_ok, create_raw, task_id, poll_raw, poll_ok,
            clock, deadline>>

\* The environment of a run: the two flags and the image behind the input.
\* They only matter to a request the preprocessor looks at; for such a
\* request, one environment for each way the preprocessor can go: switched
\* off, image not loaded, nothing to crop (without and with the persisted
\* copy), cropped.
Environment(autocrop, persist, source) ==
    [autocrop |-> autocrop, persist |-> persist, source |-> source]

Environments(req) ==
    IF req.provider = "alibaba" /\ req.task_type = TASK_IMAGE2IMAGE
    THEN {Environment(FALSE, FALSE, <<3242, 2160>>),
          Environment(TRUE, FALSE, NoSize),
          Environment(TRUE, FALSE, <<1024, 1024>>),
          Environment(TRUE, TRUE, <<1024, 1024>>),
          Environment(TRUE, FALSE, <<3242, 2160>>)}
    ELSE {Environment(FALSE, FALSE, NoSize)}

\* Values of the variables a specification does not use.
NoPreparation == [request |-> Req("", "", NoneStr, NoneStr),
                  cleanup |-> <<>>, image |-> NoSize]
NoCall == [fn |-> ""]
NoResult == [done |-> FALSE, ok |-> FALSE, error |-> ""]
NoOutcome == [kind |-> "", error |-> ""]
NoValue == <<>>
NoScan == [parser |-> "", i |-> 0, steps |-> 0, fault |-> ""]

\* No function is called on its own.
NothingCalled ==
    /\ call = NoCall
    /\ result = NoResult
    /\ returned = NoValue
    /\ scan = NoScan

\* `state` of _run_with_progress before the worker has written to it.
EmptySlot == [result |-> "None", error |-> ""]

\* _run_with_progress is not running: no thread, fn not called.
NoProgress(quiet) ==
    [quiet |-> quiet, thread |-> "none", slot |-> EmptySlot, did |-> NoOutcome,
     fn_runs |-> 0, spins |-> 0]

\* No batch or compare command runs.
NoCommand ==
    /\ command = ""
    /\ entries = <<>>
    /\ finished = 0
    /\ bpc = "idle"
    /\ current = NoOutcome
    /\ started = <<>>
    /\ run_dirs = {}
    /\ rows = <<>>
    /\ summary = <<>>
    /\ progress = NoProgress(TRUE)

\* The orchestrator call has not begun.
AtStart ==
    /\ pc = "start"
    /\ prepared = request
    /\ cleanup_paths = <<>>
    /\ files = {}
    /\ temp_image = NoSize
    /\ reprepared = NoPreparation
    /\ attempt = 0
    /\ calls = 0
    /\ sleeps = 0
    /\ last_error = NoError
    /\ outcome = ""
    /\ raised = NoError
    /\ response = NoResponse
    /\ gpc = "idle"
    /\ http = NoCalls
    /\ gen_error = NoError
    /\ sync_exc = NoError
    /\ create_ok = FALSE
    /\ create_raw = JNull
    /\ task_id = NoneStr
    /\ poll_raw = JNull
    /\ poll_ok = FALSE
    /\ clock = 0
    /\ deadline = 0

Init ==
    /\ \E run \in Runs :
          /\ adapter = run.adapter
          /\ request = run.request
          /\ max_retries = run.max_retries
          /\ retry_delay = run.retry_delay
          /\ entry = run.entry
          /\ \E env \in Environments(run.request) :
                /\ autocrop_enabled = env.autocrop
                /\ persist_enabled = env.persist
                /\ source_image = env.source
    /\ AtStart
    /\ NothingCalled
    /\ NoCommand

\* The poll counter stops counting above every number of polls a deadline
\* of MaxPollTimeout ticks allows.
PollCap == MaxPollTimeout + 2

\* The clock stops above every value a call can observe.
ClockCap == MaxPollTimeout + MaxGetTicks + 2

\* time.monotonic() after `ticks` more ticks.
Advance(now, ticks) == Min(now + ticks, ClockCap)

Range(seq) == {seq[i] : i \in 1..Len(seq)}

\* cleanup_temp_files: the files left on disk.
cleanup_temp_files(existing, paths) == existing \ Range(paths)

\* The RuntimeError run_with_retry_with_artifacts raises after the loop.
RetriesExhausted(text) ==
    Err("RuntimeError", "Request failed after retries: " \o text)

\* run_with_retry_with_artifacts, line 43 (and line 53 when the loop has no
\* iteration): the request is prepared, temporary files are created.
Prepare ==
    /\ pc = "start"
    /\ LET r == prepare_request_for_execution(request, autocrop_enabled,
                                               persist_enabled, source_image,
                                               mkstemp(files))
       IN  /\ prepared' = r.request
           /\ cleanup_paths' = r.cleanup
           /\ files' = files \cup Range(r.cleanup)
           /\ temp_image' = r.image
    /\ IF max_retries + 1 <= 0
       THEN /\ pc' = "done"
            /\ outcome' = "raised"
            /\ raised' = RetriesExhausted("None")
       ELSE /\ pc' = "attempt"
            /\ UNCHANGED <<outcome, raised>>
    /\ UNCHANGED <<config, apart, attempt, calls, sleeps, last_error, response, gpc,
                   http, gen_error, poller>>

\* Where adapter.generate starts for this adapter.
GenerateEntry(a) ==
    CASE a.provider = "alibaba" -> alibaba_generate_entry(a)
      [] a.provider = "google" -> "google"
      [] a.provider = "glm" -> "sync"

\* Line 47: adapter.generate(prepared_request) is called.
CallGenerate ==
    /\ pc = "attempt"
    /\ pc' = "generate"
    /\ calls' = calls + 1
    /\ gpc' = GenerateEntry(adapter)
    /\ http' = NoCalls
    /\ gen_error' = NoError
    /\ sync_exc' = NoError
    /\ create_ok' = FALSE
    /\ create_raw' = JNull
    /\ task_id' = NoneStr
    /\ poll_raw' = JNull
    /\ poll_ok' = FALSE
    /\ clock' = 0
    /\ deadline' = 0
    /\ UNCHANGED <<config, apart, prep, attempt, sleeps, last_error, outcome, raised,
                   response>>

\* Mutant: the loop allows one attempt too many.
LastAttempt_off_by_one(index, retries) == index = retries + 1

\* Whether the retry loop goes on after a failed attempt (line 50).
LastAttempt(index, retries) == index = retries

\* How a step of generate ends, and what lines 47-53 of the runner do with
\* it: return the response, or record the error and break or go to sleep.
FinishGenerate(o) ==
    IF o.kind = "return"
    THEN /\ response' = o.response
         /\ gen_error' = NoError
         /\ gpc' = "idle"
         /\ pc' = "returned"
         /\ UNCHANGED <<last_error, outcome, raised>>
    ELSE IF o.kind = "raise"
    THEN /\ gen_error' = o.error
         /\ last_error' = o.error
         /\ gpc' = "idle"
         /\ IF LastAttempt(attempt, max_retries)
            THEN /\ pc' = "done"
                 /\ outcome' = "raised"
                 /\ raised' = RetriesExhausted(o.error.msg)
            ELSE /\ pc' = "sleep"
                 /\ UNCHANGED <<outcome, raised>>
         /\ UNCHANGED response
    ELSE /\ gpc' = o.next
         /\ UNCHANGED <<pc, response, gen_error, last_error, outcome, raised>>

Sent(o) == IF o.posted THEN 1 ELSE 0

\* ProviderAdapter.generate for GLM, and the synchronous attempt of
\* AlibabaAdapter.generate.
SyncGenerate ==
    /\ pc = "generate"
    /\ gpc = "sync"
    /\ \E r \in PostResponses, uid \in UuidHex :
          LET first == base_generate(adapter, prepared, r, uid)
              o == IF adapter.provider = "alibaba"
                   THEN alibaba_generate_sync(adapter, prepared, r, uid)
                   ELSE first
          IN  /\ http' = [http EXCEPT !.sync_post = @ + Sent(first)]
              /\ sync_exc' = IF adapter.provider = "alibaba"
                                 /\ first.kind = "raise"
                                 /\ first.error.type = "RuntimeError"
                              THEN first.error ELSE NoError
              /\ FinishGenerate(o)
    /\ UNCHANGED <<config, apart, prep, attempt, calls, sleeps, create_ok, create_raw,
                   task_id, poll_raw, poll_ok, clock, deadline>>

\* GoogleAdapter._to_inline_data downloads the input image.
GoogleFetchInput ==
    /\ pc = "generate"
    /\ gpc = "google"
    /\ google_prelude(adapter, prepared, LocalFiles \cup files).error = NoError
    /\ google_prelude(adapter, prepared, LocalFiles \cup files).fetch
    /\ \E r \in FetchResponses :
          /\ http' = [http EXCEPT !.fetch_get = @ + 1]
          /\ FinishGenerate(google_fetch(r))
    /\ UNCHANGED <<config, apart, prep, attempt, calls, sleeps, poller>>

\* GoogleAdapter.generate (after the download, when there is one).
GoogleGenerate ==
    /\ pc = "generate"
    /\ \/ gpc = "google_fetched"
       \/ /\ gpc = "google"
          /\ LET pre == google_prelude(adapter, prepared, LocalFiles \cup files)
             IN  pre.error # NoError \/ ~pre.fetch
    /\ \E r \in PostResponses, uid \in UuidHex :
          LET o == google_generate(adapter, prepared, LocalFiles \cup files,
                                   r, uid)
          IN  /\ http' = [http EXCEPT !.sync_post = @ + Sent(o)]
              /\ FinishGenerate(o)
    /\ UNCHANGED <<config, apart, prep, attempt, calls, sleeps, poller>>

\* _generate_async up to the first line of _poll_task.
AsyncCreate ==
    /\ pc = "generate"
    /\ gpc = "async"
    /\ \E r \in CreateResponses :
          LET o == _generate_async_create(adapter, prepared, r)
              answered == o.posted /\ r.transport_ok
          IN  /\ http' = [http EXCEPT
                            !.create_post = @ + Sent(o),
                            !.poll_url =
                                IF o.kind = "goto"
                                THEN _build_task_url(
                                         CreateUrl(adapter,
                                                   prepared.task_type).url,
                                         _extract_task_id(_json_or_text(r)))
                                ELSE @]
              /\ create_ok' = (answered /\ RespOk(r))
              /\ create_raw' = IF answered THEN _json_or_text(r) ELSE JNull
              /\ task_id' = IF answered /\ RespOk(r)
                            THEN _extract_task_id(_json_or_text(r))
                            ELSE NoneStr
              /\ deadline' = IF o.kind = "goto"
                             THEN clock + adapter.poll_timeout_seconds
                             ELSE deadline
              /\ FinishGenerate(o)
    /\ UNCHANGED <<config, apart, prep, attempt, calls, sleeps, sync_exc, poll_raw,
                   poll_ok, clock>>

\* One iteration of the loop of _poll_task: the GET, which takes ticks, the
\* status, and time.sleep(poll_interval_seconds).
PollGet ==
    /\ pc = "generate"
    /\ gpc = "poll"
    /\ PollLoopContinues(clock, deadline)
    /\ \E r \in PollResponses, ticks \in 1..MaxGetTicks :
          LET o == _poll_task_step(adapter, prepared, task_id, create_raw, r)
              terminal == r.transport_ok /\ RespOk(r)
                          /\ _extract_task_status(_json_or_text(r))
                                 \in SuccessStatuses \cup FailureStatuses
          IN  /\ http' = [http EXCEPT
                            !.poll_get = Min(@ + 1, PollCap),
                            !.terminal = @ + (IF terminal THEN 1 ELSE 0),
                            !.poll_status = IF r.transport_ok THEN r.status
                                            ELSE 0]
              /\ poll_raw' = IF r.transport_ok THEN _json_or_text(r)
                             ELSE poll_raw
              /\ poll_ok' = (r.transport_ok /\ RespOk(r))
              /\ clock' = Advance(clock, ticks
                                   + (IF o.kind = "goto"
                                      THEN adapter.poll_interval_seconds
                                      ELSE 0))
              /\ FinishGenerate(o)
    /\ UNCHANGED <<config, apart, prep, attempt, calls, sleeps, sync_exc, create_ok,
                   create_raw, task_id, deadline>>

\* The loop of _poll_task ends: the deadline is reached.
PollTimeout ==
    /\ pc = "generate"
    /\ gpc = "poll"
    /\ ~PollLoopContinues(clock, deadline)
    /\ FinishGenerate(Raise(PollTimeoutError(adapter), FALSE))
    /\ UNCHANGED <<config, apart, prep, attempt, calls, sleeps, http, poller>>

\* Line 52: time.sleep(retry_delay_seconds), which raises on a negative
\* delay, and the next iteration of the loop.
RetrySleep ==
    /\ pc = "sleep"
    /\ IF retry_delay < 0
       THEN /\ pc' = "done"
            /\ outcome' = "raised"
            /\ raised' = Err("ValueError", "sleep length must be non-negative")
            /\ UNCHANGED <<attempt, sleeps>>
       ELSE /\ pc' = "attempt"
            /\ attempt' = attempt + 1
            /\ sleeps' = sleeps + 1
            /\ UNCHANGED <<outcome, raised>>
    /\ UNCHANGED <<config, apart, prep, calls, last_error, response, gpc, http,
                   gen_error, poller>>

\* run_with_retry, lines 33-34: the temporary files are deleted after
\* run_with_retry_with_artifacts has returned.
RunWithRetryReturn ==
    /\ pc = "returned"
    /\ entry = "run_with_retry"
    /\ files' = cleanup_temp_files(files, cleanup_paths)
    /\ pc' = "done"
    /\ outcome' = "returned"
    /\ UNCHANGED <<config, apart, prepared, cleanup_paths, temp_image, attempt, calls,
                   sleeps,
                   last_error, raised, response, gpc, http, gen_error, poller>>

\* cli.py main, lines 73-86: persist_run, which may raise, and
\* cleanup_temp_files in the finally block.
CliPersist ==
    /\ pc = "returned"
    /\ entry = "cli_single"
    /\ \E persisted \in BOOLEAN :
          /\ outcome' = IF persisted THEN "returned" ELSE "raised"
          /\ raised' = IF persisted THEN raised
                       ELSE Err("OSError", "persist_run failed")
    /\ files' = cleanup_temp_files(files, cleanup_paths)
    /\ pc' = "done"
    /\ UNCHANGED <<config, apart, prepared, cleanup_paths, temp_image, attempt, calls,
                   sleeps,
                   last_error, response, gpc, http, gen_error, poller>>

Next ==
    \/ Prepare
    \/ CallGenerate
    \/ SyncGenerate
    \/ GoogleFetchInput
    \/ GoogleGenerate
    \/ AsyncCreate
    \/ PollGet
    \/ PollTimeout
    \/ RetrySleep
    \/ RunWithRetryReturn
    \/ CliPersist

Spec == Init /\ [][Next]_vars

\* The thread in the loop of _poll_task keeps running: every GET and every
\* sleep returns, so an iteration that can be taken is taken.
FairSpec == Spec /\ WF_vars(PollGet \/ PollTimeout)

-----------------------------------------------------------------------------
(* The preprocessor on its own: prepare_request_for_execution over many
   requests, flags and source images, applied once by the orchestrator and
   once more to its own result. *)

PrepSizes ==
    {NoneStr, "auto", "1024*1024", "1024x1024", " 800X600 ", "3242x2160",
     "2048x1364", "100x5000", "0x512", "4096x1025"}

\* Pixel sizes of the source image; NoSize when it cannot be loaded.
PrepSources ==
    {NoSize, <<100, 100>>, <<300, 200>>, <<800, 600>>, <<1024, 1024>>,
     <<2048, 1364>>, <<2049, 2048>>, <<2500, 1999>>, <<3242, 2160>>,
     <<2160, 3242>>, <<4000, 4000>>, <<4096, 1025>>, <<8192, 2048>>,
     <<5000, 1000>>}

PrepRequests ==
    {Req(p, TASK_TEXT2IMAGE, image, size) :
        p \in {"alibaba", "google"}, image \in {NoneStr, "", "in.png"},
        size \in {NoneStr, "1024x1024"}}
    \cup {Req(p, TASK_IMAGE2IMAGE, image, size) :
            p \in {"alibaba", "google"},
            image \in {"in.png", "https://i/in.png"}, size \in PrepSizes}

PrepInit ==
    /\ request \in PrepRequests
    /\ autocrop_enabled \in BOOLEAN
    /\ persist_enabled \in BOOLEAN
    /\ source_image \in PrepSources
    /\ adapter = Adapter("alibaba", "k", "https://h/multimodal-generation/g",
                         FALSE, "https://h/async", 0, 1)
    /\ max_retries = 0
    /\ retry_delay = 0
    /\ entry = "run_with_retry"
    /\ AtStart
    /\ NothingCalled
    /\ NoCommand

\* _load_source_image: the image found behind an input_image.
ImageAt(path) == IF path \in files THEN temp_image ELSE source_image

\* prepare_request_for_execution applied to the request it returned.
PrepareAgain ==
    /\ pc = "attempt"
    /\ reprepared = NoPreparation
    /\ LET r == prepare_request_for_execution(prepared, autocrop_enabled,
                                               persist_enabled,
                                               ImageAt(prepared.input_image),
                                               mkstemp(files))
       IN  /\ reprepared' = r
           /\ files' = files \cup Range(r.cleanup)
    /\ UNCHANGED <<config, pure, batch, prepared, cleanup_paths, temp_image,
                   pc, attempt, calls, sleeps, last_error, outcome, raised,
                   response, gpc, http, gen_error, poller>>

PrepNext ==
    \/ Prepare
    \/ PrepareAgain

PrepSpec == PrepInit /\ [][PrepNext]_vars

-----------------------------------------------------------------------------
(* Functions called on their own: the GenerationRequest constructor and
   _looks_like_image, one call per behaviour. *)

RECURSIVE Repeat(_, _)
Repeat(text, times) ==
    IF times = 0 THEN ""
    ELSE LET half == Repeat(text, times \div 2)
         IN  IF times % 2 = 0 THEN half \o half ELSE half \o half \o text

ConstructorCalls ==
    {[fn |-> "GenerationRequest", provider |-> p, model |-> m,
      task_type |-> t, prompt |-> q, input_image |-> image, size |-> size] :
        p \in {"alibaba", "openai"}, m \in {"m1", "", " "},
        t \in {TASK_TEXT2IMAGE, TASK_IMAGE2IMAGE, "video"},
        q \in {"A cat", " "},
        image \in {NoneStr, "", " ", " \t", "in.png", "https://i/in.png"},
        size \in {NoneStr, "1024x1024", " "}}

ImageKeys ==
    {"image", "IMG", "Url", "output", "result", "generated_at", "b64_json",
     "image_base64", "B64", "text", "id"}

ImageValues ==
    {"http://h/a.png", "https://h/a.png", "HTTPS://H/A.PNG", "ftp://h/a",
     "data:image/png;base64,aGk=", "DATA:IMAGE/PNG;base64,aGk=", "hello", "",
     Repeat("A", Base64LenThreshold), Repeat("A", Base64LenThreshold + 1),
     "https://h/" \o Repeat("a", Base64LenThreshold),
     "data:image/png;base64," \o Repeat("A", Base64LenThreshold)}

ImageCalls ==
    {[fn |-> "_looks_like_image", key |-> k, value |-> v] :
        k \in ImageKeys, v \in ImageValues}

\* Response bodies, as response.json() returns them.
LongB64 == Repeat("QUJD", 26)
UrlA == "https://c/a.png"
UrlB == "https://c/b.png"
DataPng == "data:image/png;base64,QUJD"

Inline(key, fields, vals) == JDict(<<key>>, <<JDict(fields, vals)>>)

ResponseBodies ==
    {JNull, JDict(<<>>, <<>>), JList(<<>>), JStr(UrlA),
     JList(<<JStr(UrlA), JStr(DataPng)>>),
     JDict(<<"images">>, <<JList(<<JStr(UrlA), JStr(UrlB)>>)>>),
     JDict(<<"url", "data">>,
           <<JList(<<JList(<<JStr(UrlB)>>)>>),
             JList(<<JDict(<<"url">>, <<JStr(UrlA)>>),
                     JDict(<<"text", "b64_json">>,
                           <<JStr(UrlB), JStr(LongB64)>>)>>)>>),
     JDict(<<"output", "request_id">>,
           <<JDict(<<"results", "image_url">>,
                   <<JList(<<JDict(<<"url">>, <<JStr(UrlB)>>),
                             JDict(<<"url">>, <<JStr(UrlA)>>),
                             JDict(<<"url">>, <<JStr(UrlB)>>)>>),
                     JStr(UrlA)>>),
             JStr(" req-1 ")>>),
     JDict(<<"id", "request_id", "image">>,
           <<JStr("id-1"), JStr("req-1"), JStr("HTTPS://C/A.PNG")>>),
     JDict(<<"task_id", "id", "request_id", "b64_json">>,
           <<JStr("task-1"), JStr("  "), JNum(7), JStr("aGVsbG8=")>>),
     JDict(<<"responseId", "task_id", "image">>,
           <<JStr("resp-1"), JStr(""), JStr("data:image/png")>>),
     JDict(<<"responseId", "request_id">>, <<JStr(" \t"), JNull>>),
     JDict(<<"image", "candidates">>,
           <<JStr(DataPng),
             JList(<<Inline("inlineData", <<"mimeType", "data">>,
                            <<JStr("image/png"), JStr("QUJD")>>),
                     Inline("inline_data", <<"mime_type", "data">>,
                            <<JStr("image/jpeg"), JStr("QUJD")>>),
                     Inline("inlineData", <<"data">>, <<JStr("QUJD")>>)>>)>>),
     JDict(<<"inline_data", "inlineData", "result_url">>,
           <<JDict(<<"data", "mimeType", "mime_type">>,
                   <<JStr("eHl6"), JStr(""), JStr("image/webp")>>),
             JDict(<<"mimeType", "data">>,
                   <<JStr("text/plain"), JStr("aGk=")>>),
             JStr(UrlA)>>),
     JDict(<<"inlineData">>,
           <<JDict(<<"data", "mimeType", "inlineData">>,
                   <<JStr(""), JStr("image/png"),
                     JDict(<<"data", "mimeType">>,
                           <<JStr("QUJD"), JNum(5)>>)>>)>>)}

ExtractCalls ==
    {[fn |-> f, raw |-> raw, uid |-> "0a1b2c3d4e5f"] :
        f \in {"extract_images", "google.extract_images"},
        raw \in ResponseBodies}
    \cup {[fn |-> f, raw |-> raw, uid |-> uid] :
            f \in {"extract_request_id", "google.extract_request_id"},
            raw \in ResponseBodies, uid \in UuidHex}

JBool(v) == [t |-> "bool", s |-> "", n |-> IF v THEN 1 ELSE 0, keys |-> <<>>, kids |-> <<>>]

\* dict.update(other): the keys of other replace or are appended, in order.
RECURSIVE DictUpdate(_, _)
DictUpdate(d, other) ==
    IF other.keys = <<>> THEN d
    ELSE LET k == Head(other.keys)
             v == Head(other.kids)
             rest == JDict(Tail(other.keys), Tail(other.kids))
             i == CHOOSE j \in 1..Len(d.keys) : d.keys[j] = k
         IN  IF HasKey(d, k)
             THEN DictUpdate(JDict(d.keys, [d.kids EXCEPT ![i] = v]), rest)
             ELSE DictUpdate(JDict(Append(d.keys, k), Append(d.kids, v)), rest)

\* The parameters block with `if request.seed:` for `is not None`.
AlibabaParameters_seed_truthy(req) ==
    LET enable_interleave == req.task_type # TASK_IMAGE2IMAGE
        base == JDict(<<"enable_interleave", "watermark">>,
                      <<JBool(enable_interleave), JBool(FALSE)>>)
        sized == IF ~Falsy(req.size)
                 THEN DictUpdate(base, JDict(<<"size">>,
                          <<JStr(StrReplace(req.size, "x", "*"))>>))
                 ELSE base
        counted == DictUpdate(sized,
                       JDict(<<IF enable_interleave THEN "max_images" ELSE "n">>,
                             <<JNum(req.n)>>))
        seeded == IF Truthy(req.seed)
                  THEN DictUpdate(counted, JDict(<<"seed">>, <<req.seed>>))
                  ELSE counted
    IN  IF ~Falsy(req.negative_prompt)
        THEN DictUpdate(seeded, JDict(<<"negative_prompt">>,
                                      <<JStr(req.negative_prompt)>>))
        ELSE seeded

\* AlibabaAdapter.build_payload: the `parameters` dict it fills in.
AlibabaParameters(req) ==
    LET enable_interleave == req.task_type # TASK_IMAGE2IMAGE
        base == JDict(<<"enable_interleave", "watermark">>,
                      <<JBool(enable_interleave), JBool(FALSE)>>)
        sized == IF ~Falsy(req.size)
                 THEN DictUpdate(base, JDict(<<"size">>,
                          <<JStr(StrReplace(req.size, "x", "*"))>>))
                 ELSE base
        counted == DictUpdate(sized,
                       JDict(<<IF enable_interleave THEN "max_images" ELSE "n">>,
                             <<JNum(req.n)>>))
        seeded == IF req.seed # JNull
                  THEN DictUpdate(counted, JDict(<<"seed">>, <<req.seed>>))
                  ELSE counted
    IN  IF ~Falsy(req.negative_prompt)
        THEN DictUpdate(seeded, JDict(<<"negative_prompt">>,
                                      <<JStr(req.negative_prompt)>>))
        ELSE seeded

\* AlibabaAdapter.build_payload; request.extra is a dict, empty when the
\* caller gave none.
build_payload(req) ==
    LET image_info == parse_input_image(req.input_image, LocalFiles)
        content == <<JDict(<<"text">>, <<JStr(req.prompt)>>)>>
                   \o (IF image_info.kind # ""
                       THEN <<JDict(<<"image">>, <<JStr(image_info.value)>>)>>
                       ELSE <<>>)
        message == JDict(<<"role", "content">>, <<JStr("user"), JList(content)>>)
        payload == JDict(<<"model", "input", "parameters">>,
                         <<JStr(req.model),
                           JDict(<<"messages">>, <<JList(<<message>>)>>),
                           AlibabaParameters(req)>>)
    IN  IF Truthy(req.extra) THEN DictUpdate(payload, req.extra)
        ELSE payload

NoExtra == JDict(<<>>, <<>>)

\* Validated requests for build_payload: n >= 1, a size that is not blank,
\* a negative prompt that is absent or not blank, input_image present for
\* image_to_image.
ExtraOverride ==
    JDict(<<"parameters", "stream">>,
          <<JDict(<<"n">>, <<JNum(9)>>), JBool(TRUE)>>)

PayloadCalls ==
    {c \in {[fn |-> "build_payload", model |-> "m1", prompt |-> "A cat",
             task_type |-> t, input_image |-> image, size |-> size, n |-> n,
             seed |-> seed, negative_prompt |-> negative, extra |-> extra] :
               t \in TaskType,
               image \in {NoneStr, "https://i/in.png", "in.png"},
               size \in {NoneStr, "1024x1024", "1024X768"},
               n \in {1, 2},
               seed \in {JNull, JNum(0), JNum(7)},
               negative \in {NoneStr, "blurry"},
               extra \in {NoExtra, ExtraOverride}} :
        c.task_type = TASK_IMAGE2IMAGE => c.input_image # NoneStr}

\* The orchestrator is not running.
Standby ==
    /\ adapter = Adapter("alibaba", "k", "https://h/multimodal-generation/g",
                         FALSE, "https://h/async", 0, 1)
    /\ request = Req("alibaba", TASK_TEXT2IMAGE, NoneStr, NoneStr)
    /\ max_retries = 0
    /\ retry_delay = 0
    /\ entry = "run_with_retry"
    /\ autocrop_enabled = FALSE
    /\ persist_enabled = FALSE
    /\ source_image = NoSize
    /\ AtStart

run_state == <<pc, attempt, calls, sleeps, last_error, outcome, raised,
               response, gpc, http, gen_error>>
orchestrator == <<config, prep, reprepared, run_state, poller>>

FnInit ==
    /\ call \in ConstructorCalls \cup ImageCalls \cup ExtractCalls
                \cup PayloadCalls
    /\ result = NoResult
    /\ returned = NoValue
    /\ scan = NoScan
    /\ Standby
    /\ NoCommand

ConstructRequest ==
    /\ call.fn = "GenerationRequest"
    /\ ~result.done
    /\ LET built == GenerationRequest(call)
       IN  result' = [done |-> TRUE, ok |-> built.ok,
                      error |-> IF built.ok THEN "" ELSE built.errors[1]]
    /\ UNCHANGED <<call, returned, scan, orchestrator, batch>>

LooksLikeImage ==
    /\ call.fn = "_looks_like_image"
    /\ ~result.done
    /\ result' = [done |-> TRUE, ok |-> _looks_like_image(call.key, call.value),
                  error |-> ""]
    /\ UNCHANGED <<call, returned, scan, orchestrator, batch>>

\* extract_images of the shared adapter base and of the Google adapter.
ExtractImages ==
    /\ call.fn \in {"extract_images", "google.extract_images"}
    /\ ~result.done
    /\ returned' = IF call.fn = "extract_images"
                   THEN extract_images(call.raw)
                   ELSE google_extract_images(call.raw)
    /\ result' = [done |-> TRUE, ok |-> TRUE, error |-> ""]
    /\ UNCHANGED <<call, scan, orchestrator, batch>>

\* extract_request_id of the shared adapter base and of the Google adapter;
\* call.uid is what uuid.uuid4().hex[:12] would give.
ExtractRequestId ==
    /\ call.fn \in {"extract_request_id", "google.extract_request_id"}
    /\ ~result.done
    /\ returned' = IF call.fn = "extract_request_id"
                   THEN extract_request_id(call.raw, call.uid)
                   ELSE google_extract_request_id(call.raw, call.uid)
    /\ result' = [done |-> TRUE, ok |-> TRUE, error |-> ""]
    /\ UNCHANGED <<call, scan, orchestrator, batch>>

\* AlibabaAdapter.build_payload on one validated request.
BuildPayload ==
    /\ call.fn = "build_payload"
    /\ ~result.done
    /\ returned' = build_payload(call)
    /\ result' = [done |-> TRUE, ok |-> TRUE, error |-> ""]
    /\ UNCHANGED <<call, scan, orchestrator, batch>>

FnNext ==
    \/ ConstructRequest
    \/ LooksLikeImage
    \/ ExtractImages
    \/ ExtractRequestId
    \/ BuildPayload

FnSpec == FnInit /\ [][FnNext]_vars

-----------------------------------------------------------------------------
(* core/io_utils.py: the image codec.  A buffer is a sequence of bytes,
   data[k] of the code is data[k + 1] here.  Each parser reports the
   indices it reads; a read outside the buffer is the IndexError or
   struct.error Python would raise. *)

\* A 32-bit quantity as two 16-bit halves, high half first.
Word(hi, lo) == <<hi, lo>>

\* data[k], -1 where the index is outside the buffer.
At(data, k) == IF 0 <= k /\ k < Len(data) THEN data[k + 1] ELSE -1

\* data[a:b]: a slice is clipped to the buffer and never raises.
Slice(data, a, b) == SubSeq(data, Min(a, Len(data)) + 1, Min(b, Len(data)))

\* struct.unpack(">H") and ("<H") of the two bytes at k.
U16BE(data, k) == At(data, k) * 256 + At(data, k + 1)
U16LE(data, k) == At(data, k) + At(data, k + 1) * 256

NoDims == [dims |-> NoValue, reads |-> {}]

PngMagic == <<137, 80, 78, 71, 13, 10, 26, 10>>

_png_dimensions(data) ==
    IF Len(data) < 24 THEN NoDims
    ELSE IF Slice(data, 0, 8) # PngMagic THEN NoDims
    ELSE [dims |-> <<Word(U16BE(data, 16), U16BE(data, 18)),
                     Word(U16BE(data, 20), U16BE(data, 22))>>,
          reads |-> 16..23]

\* _jpeg_dimensions up to `i = 2`: whether the marker scan starts.
_jpeg_header(data) == ~(Len(data) < 4 \/ Slice(data, 0, 2) # <<255, 216>>)

sof_markers ==
    {192, 193, 194, 195, 197, 198, 199, 201, 202, 203, 205, 206, 207}

JpegNone(i, reads) == [next |-> "return", i |-> i, dims |-> NoValue, reads |-> reads]
JpegContinue(i, reads) == [next |-> "continue", i |-> i, dims |-> NoValue, reads |-> reads]

\* One iteration of the marker scan from `marker = data[i]` on.
_jpeg_marker(data, i, seen) ==
    LET marker == At(data, i)
        j == i + 1
        segment_length == U16BE(data, j)
    IN  IF marker \in {216, 217} THEN JpegContinue(j, seen \cup {i})
        ELSE IF marker = 218 THEN JpegNone(j, seen \cup {i})
        ELSE IF j + 2 > Len(data) THEN JpegNone(j, seen \cup {i})
        ELSE IF segment_length < 2 \/ j + segment_length > Len(data)
             THEN JpegNone(j, seen \cup {i, j, j + 1})
        ELSE IF marker \in sof_markers
             THEN IF j + 7 > Len(data)
                  THEN JpegNone(j, seen \cup {i, j, j + 1})
                  ELSE [next |-> "return", i |-> j,
                        dims |-> <<Word(0, U16BE(data, j + 5)),
                                   Word(0, U16BE(data, j + 3))>>,
                        reads |-> seen \cup {i, j, j + 1} \cup (j + 3)..(j + 6)]
        ELSE JpegContinue(j + segment_length, seen \cup {i, j, j + 1})

\* Where `while i < len(data) and data[i] == 0xFF: i += 1` stops.
SkipFill(data, i) ==
    CHOOSE j \in i..Len(data) :
        /\ \A k \in i..(j - 1) : At(data, k) = 255
        /\ j = Len(data) \/ At(data, j) # 255

\* The iteration without `if i >= len(data): return None`.
_jpeg_iteration_unguarded_marker(data, i) ==
    IF At(data, i) # 255 THEN JpegContinue(i + 1, {i})
    ELSE LET j == SkipFill(data, i)
         IN  _jpeg_marker(data, j, i..Min(j, Len(data) - 1))

\* One iteration of `while i + 9 < len(data)` in _jpeg_dimensions.
_jpeg_iteration(data, i) ==
    IF At(data, i) # 255 THEN JpegContinue(i + 1, {i})
    ELSE LET j == SkipFill(data, i)
         IN  IF j >= Len(data) THEN JpegNone(j, i..(j - 1))
             ELSE _jpeg_marker(data, j, i..j)

_gif_dimensions(data) ==
    IF Len(data) < 10 THEN NoDims
    ELSE IF Slice(data, 0, 6) \notin {<<71, 73, 70, 56, 55, 97>>,
                                      <<71, 73, 70, 56, 57, 97>>}
         THEN NoDims
    ELSE [dims |-> <<Word(0, U16LE(data, 6)), Word(0, U16LE(data, 8))>>,
          reads |-> 6..9]

\* int.from_bytes(data[k:k+4], "little", signed=True): sign and magnitude,
\* the magnitude as a Word.
SignedLE(data, k) ==
    LET lo == U16LE(data, k)
        hi == U16LE(data, k + 2)
    IN  IF hi < 32768 THEN [negative |-> FALSE, magnitude |-> Word(hi, lo)]
        ELSE [negative |-> TRUE,
              magnitude |-> IF lo = 0 THEN Word(65536 - hi, 0)
                            ELSE Word(65535 - hi, 65536 - lo)]

_bmp_dimensions(data) ==
    IF Len(data) < 26 \/ Slice(data, 0, 2) # <<66, 77>> THEN NoDims
    ELSE LET width == SignedLE(data, 18)
             height == SignedLE(data, 22)
         IN  IF \/ width.negative \/ width.magnitude = Word(0, 0)
                \/ height.magnitude = Word(0, 0)
             THEN [dims |-> NoValue, reads |-> 18..25]
             ELSE [dims |-> <<width.magnitude, height.magnitude>>,
                   reads |-> 18..25]

\* The exception a set of reads raises on this buffer, "" when none.
Fault(data, reads) ==
    IF reads \subseteq 0..(Len(data) - 1) THEN "" ELSE "IndexError"

Prefixes(data) == {SubSeq(data, 1, k) : k \in 0..Len(data)}

Png(width, height) ==
    PngMagic \o <<0, 0, 0, 13, 73, 72, 68, 82>> \o width \o height
             \o <<8, 6, 0, 0, 0>>

Gif(version, width, height) ==
    <<71, 73, 70, 56, version, 97>> \o width \o height \o <<128, 0, 0>>

Bmp(width, height) ==
    <<66, 77, 70, 0, 0, 0, 0, 0, 0, 0, 54, 0, 0, 0, 40, 0, 0, 0>>
        \o width \o height \o <<1, 0, 24, 0>>

App0 == <<255, 224, 0, 16, 74, 70, 73, 70, 0, 1, 1, 0, 0, 1, 0, 1, 0, 0>>

Sof(marker, length) ==
    <<255, marker>> \o length \o <<8, 3, 0, 4, 0, 3, 1, 17, 0, 2, 17, 1, 3, 17, 1>>

Jpeg(segments) == <<255, 216>> \o segments

BodyLen == 4

BodyBytes == {255, 192, 224, 217, 0, 3}

Tails ==
    {<<255, 255, 255, 255, 255, 255, 255, 255, 255, 255>>,
     <<0, 17, 8, 3, 0, 4, 0, 3, 1, 17>>,
     <<0, 0, 0, 0, 0, 0, 0, 0, 0, 0>>}

\* Whole and truncated images of each format, images with zero, negative
\* and maximal dimensions, JPEG segments with zero, short and overlong
\* lengths, fill bytes up to the end of the buffer, and every JPEG body of
\* BodyLen bytes of BodyBytes before each of Tails.
Buffers ==
    UNION {Prefixes(b) :
             b \in {Png(<<0, 0, 4, 0>>, <<0, 0, 3, 0>>),
                    Png(<<255, 255, 255, 255>>, <<0, 0, 0, 0>>),
                    Gif(57, <<0, 4>>, <<0, 3>>),
                    Gif(55, <<0, 0>>, <<255, 255>>),
                    Gif(56, <<0, 4>>, <<0, 3>>),
                    Bmp(<<0, 4, 0, 0>>, <<0, 3, 0, 0>>),
                    Bmp(<<0, 4, 0, 0>>, <<0, 253, 255, 255>>),
                    Bmp(<<0, 4, 0, 0>>, <<0, 0, 0, 128>>),
                    Bmp(<<0, 0, 0, 0>>, <<0, 3, 0, 0>>),
                    Bmp(<<255, 255, 255, 255>>, <<0, 3, 0, 0>>),
                    Bmp(<<0, 4, 0, 0>>, <<0, 0, 0, 0>>),
                    Jpeg(App0 \o Sof(192, <<0, 17>>)),
                    Jpeg(App0 \o Sof(194, <<0, 17>>)),
                    Jpeg(App0 \o Sof(196, <<0, 17>>) \o Sof(192, <<0, 17>>)),
                    Jpeg(App0 \o <<255, 218, 0, 12>> \o Sof(192, <<0, 17>>)),
                    Jpeg(<<255, 224, 0, 0>> \o Sof(192, <<0, 17>>)),
                    Jpeg(<<255, 224, 0, 1>> \o Sof(192, <<0, 17>>)),
                    Jpeg(<<255, 224, 255, 255>> \o Sof(192, <<0, 17>>)),
                    Jpeg(<<255, 255, 255, 216, 0, 7>> \o Sof(192, <<0, 2>>)),
                    Jpeg(App0 \o Sof(192, <<255, 255>>))}}
    \cup {Jpeg(body \o tail) :
            body \in [1..BodyLen -> BodyBytes], tail \in Tails}

CodecCalls == {[fn |-> "_extract_dimensions", data |-> b] : b \in Buffers}

CodecInit ==
    /\ call \in CodecCalls
    /\ result = NoResult
    /\ returned = NoValue
    /\ scan = NoScan
    /\ Standby
    /\ NoCommand

\* `return result` of _extract_dimensions, or the exception of a parser.
Returns(parsed) ==
    /\ result' = [done |-> TRUE, ok |-> Fault(call.data, parsed.reads) = "",
                  error |-> Fault(call.data, parsed.reads)]
    /\ returned' = IF Fault(call.data, parsed.reads) = "" THEN parsed.dims
                   ELSE NoValue

\* The next parser of the tuple in _extract_dimensions is tried.
TryNext(parser, parsed) ==
    /\ scan' = [parser |-> parser, i |-> 0, steps |-> scan.steps,
                fault |-> Fault(call.data, parsed.reads)]
    /\ UNCHANGED <<result, returned>>

PngDimensions ==
    /\ call.fn = "_extract_dimensions" /\ ~result.done
    /\ scan.parser = ""
    /\ LET parsed == _png_dimensions(call.data)
       IN  IF parsed.dims # NoValue \/ Fault(call.data, parsed.reads) # ""
           THEN Returns(parsed) /\ UNCHANGED scan
           ELSE TryNext("jpeg", parsed)
    /\ UNCHANGED <<call, orchestrator, batch>>

\* The length and start-of-image test of _jpeg_dimensions, then `i = 2`.
JpegEnter ==
    /\ call.fn = "_extract_dimensions" /\ ~result.done
    /\ scan.parser = "jpeg"
    /\ scan' = IF _jpeg_header(call.data)
               THEN [scan EXCEPT !.parser = "scan", !.i = 2]
               ELSE [scan EXCEPT !.parser = "gif"]
    /\ UNCHANGED <<call, result, returned, orchestrator, batch>>

\* One evaluation of `while i + 9 < len(data)` and of the loop body.
JpegIterate ==
    /\ call.fn = "_extract_dimensions" /\ ~result.done
    /\ scan.parser = "scan"
    /\ IF ~(scan.i + 9 < Len(call.data))
       THEN /\ scan' = [scan EXCEPT !.parser = "gif"]
            /\ UNCHANGED <<result, returned>>
       ELSE LET step == _jpeg_iteration(call.data, scan.i)
            IN  IF Fault(call.data, step.reads) # "" \/ step.dims # NoValue
                THEN /\ Returns(step)
                     /\ scan' = [scan EXCEPT !.i = step.i,
                                             !.steps = scan.steps + 1]
                ELSE /\ scan' = [parser |-> IF step.next = "continue"
                                            THEN "scan" ELSE "gif",
                                 i |-> step.i, steps |-> scan.steps + 1,
                                 fault |-> ""]
                     /\ UNCHANGED <<result, returned>>
    /\ UNCHANGED <<call, orchestrator, batch>>

GifDimensions ==
    /\ call.fn = "_extract_dimensions" /\ ~result.done
    /\ scan.parser = "gif"
    /\ LET parsed == _gif_dimensions(call.data)
       IN  IF parsed.dims # NoValue \/ Fault(call.data, parsed.reads) # ""
           THEN Returns(parsed) /\ UNCHANGED scan
           ELSE TryNext("bmp", parsed)
    /\ UNCHANGED <<call, orchestrator, batch>>

\* The last parser: its result, or the `return None` after the loop.
BmpDimensions ==
    /\ call.fn = "_extract_dimensions" /\ ~result.done
    /\ scan.parser = "bmp"
    /\ Returns(_bmp_dimensions(call.data))
    /\ UNCHANGED <<call, scan, orchestrator, batch>>

CodecNext ==
    \/ PngDimensions
    \/ JpegEnter
    \/ JpegIterate
    \/ GifDimensions
    \/ BmpDimensions

\* The call runs to its end: nothing suspends _extract_dimensions.
CodecSpec == CodecInit /\ [][CodecNext]_vars /\ WF_vars(CodecNext)

-----------------------------------------------------------------------------
(* cli.py: the batch and compare commands, with the orchestrator call of
   each entry reduced to how it ends. *)

\* _read_prompts: the stripped non-empty lines of the prompts file.
_read_prompts(lines) ==
    LET stripped == [i \in 1..Len(lines) |-> StrStrip(lines[i])]
        items == SelectSeq(stripped, LAMBDA line : line # "")
    IN  [error |-> IF items = <<>>
                   THEN Err("ValueError", "prompts file is empty")
                   ELSE NoError,
         items |-> items]

PromptFiles ==
    {<<"a cat">>, <<"a cat", "", " a dog ">>, <<"a cat", "a dog", "a fox">>,
     <<" ", "">>}

\* The arguments of `batch`.
BatchModel == "m1"
BatchProvider == "alibaba"

\* The arguments of `compare`: the new and the legacy way to name targets.
CompareArgs ==
    {[provider_a |-> "alibaba", model_a |-> ma, provider_b |-> "google",
      model_b |-> mb, model_alibaba |-> NoneStr, model_google |-> NoneStr] :
        ma \in {"m1", " "}, mb \in {"m2", " ", NoneStr}}
    \cup {[provider_a |-> NoneStr, model_a |-> NoneStr,
           provider_b |-> NoneStr, model_b |-> NoneStr,
           model_alibaba |-> la, model_google |-> lg] :
             la \in {"m1", NoneStr}, lg \in {"m2", NoneStr}}

ComparePrompt == "a red car"

CompareTarget(provider, model) ==
    [provider |-> provider, model |-> model, prompt |-> ComparePrompt]

_resolve_compare_targets(args) ==
    LET has_any_new == ~Falsy(args.provider_a) \/ ~Falsy(args.provider_b)
                       \/ ~Falsy(args.model_a) \/ ~Falsy(args.model_b)
        has_new_full == ~Falsy(args.provider_a) /\ ~Falsy(args.provider_b)
                        /\ ~Falsy(args.model_a) /\ ~Falsy(args.model_b)
        has_any_old == ~Falsy(args.model_alibaba) \/ ~Falsy(args.model_google)
        has_old_full == ~Falsy(args.model_alibaba)
                        /\ ~Falsy(args.model_google)
    IN  IF has_any_new /\ has_any_old
        THEN [error |-> Err("ValueError", "compare: use either new or legacy"),
              items |-> <<>>]
        ELSE IF has_new_full
        THEN [error |-> NoError,
              items |-> <<CompareTarget(args.provider_a, args.model_a),
                          CompareTarget(args.provider_b, args.model_b)>>]
        ELSE IF has_any_new
        THEN [error |-> Err("ValueError", "compare: missing args"),
              items |-> <<>>]
        ELSE IF has_old_full
        THEN [error |-> NoError,
              items |-> <<CompareTarget("alibaba", args.model_alibaba),
                          CompareTarget("google", args.model_google)>>]
        ELSE IF has_any_old
        THEN [error |-> Err("ValueError", "compare: legacy mode requires both"),
              items |-> <<>>]
        ELSE [error |-> Err("ValueError", "compare: specify providers/models"),
              items |-> <<>>]

\* resolve_request_size, with what infer_image_size found in the input.
resolve_request_size(task_type, supplied_size, inferred) ==
    IF ~Falsy(supplied_size) THEN supplied_size
    ELSE IF task_type = TASK_IMAGE2IMAGE
    THEN (IF ~Falsy(inferred) THEN inferred ELSE NoneStr)
    ELSE "1024x1024"

\* _request_from_args for one entry of a text_to_image command given
\* neither --size nor --input-image.
_request_from_args(item) ==
    GenerationRequest([provider |-> item.provider, model |-> item.model,
                       task_type |-> TASK_TEXT2IMAGE, prompt |-> item.prompt,
                       input_image |-> NoneStr,
                       size |-> resolve_request_size(TASK_TEXT2IMAGE, NoneStr,
                                                     NoneStr)])

\* How run_with_retry_with_artifacts can end, as _run_with_progress hands it
\* on: a response, or the exception with its text.
OrchestratorOutcomes ==
    {[kind |-> "returned", error |-> ""],
     [kind |-> "raised",
      error |-> "Request failed after retries: alibaba API error status=400"],
     [kind |-> "raised", error |-> "sleep length must be non-negative"]}

Row(item, status, run_dir, error) ==
    [provider |-> item.provider, model |-> item.model, prompt |-> item.prompt,
     status |-> status, run_dir |-> run_dir, error |-> error]

RunDir(i) == "runs/" \o ToString(i)

\* The entry of the current iteration.
Position == finished + 1

BatchInit ==
    /\ \/ /\ command = "batch"
          /\ \E lines \in PromptFiles :
                LET read == _read_prompts(lines)
                IN  /\ entries = [i \in 1..Len(read.items) |->
                                    [provider |-> BatchProvider,
                                     model |-> BatchModel,
                                     prompt |-> read.items[i]]]
                    /\ bpc = IF read.error # NoError THEN "aborted"
                             ELSE "construct"
       \/ /\ command = "compare"
          /\ \E args \in CompareArgs :
                LET targets == _resolve_compare_targets(args)
                IN  /\ entries = targets.items
                    /\ bpc = IF targets.error # NoError THEN "aborted"
                             ELSE "construct"
    /\ finished = 0
    /\ current = NoOutcome
    /\ started = <<>>
    /\ run_dirs = {}
    /\ rows = <<>>
    /\ summary = <<>>
    /\ progress \in {NoProgress(quiet) : quiet \in BOOLEAN}
    /\ NothingCalled
    /\ Standby

\* After an iteration: the next entry, or summarize_results.
AfterEntry == IF Position = Len(entries) THEN "summarize" ELSE "construct"

\* _request_from_args, before the try block: a validation error leaves the
\* function.
BatchConstruct ==
    /\ bpc = "construct"
    /\ bpc' = IF _request_from_args(entries[Position]).ok THEN "run"
              ELSE "aborted"
    /\ UNCHANGED <<command, entries, finished, current, started, run_dirs,
                   rows, summary, progress, pure, orchestrator>>

\* _run_with_progress is entered: with quiet set fn is called on the
\* caller's thread, else the worker thread is started on _target.
BatchStartRun ==
    /\ bpc = "run"
    /\ started' = Append(started, Position)
    /\ bpc' = "running"
    /\ progress' = [NoProgress(progress.quiet) EXCEPT
                      !.thread = IF progress.quiet THEN "none" ELSE "alive"]
    /\ UNCHANGED <<command, entries, finished, current, run_dirs, rows,
                   summary, pure, orchestrator>>

\* _target on the worker thread: fn runs and its result or its exception
\* is stored in `state`.
WorkerTarget ==
    /\ bpc = "running"
    /\ progress.thread = "alive"
    /\ progress.fn_runs = 0
    /\ \E o \in OrchestratorOutcomes :
          progress' = [progress EXCEPT
                         !.did = o,
                         !.fn_runs = @ + 1,
                         !.slot = IF o.kind = "returned"
                                  THEN [result |-> "response", error |-> ""]
                                  ELSE [result |-> "None", error |-> o.error]]
    /\ UNCHANGED <<command, entries, finished, bpc, current, started,
                   run_dirs, rows, summary, pure, orchestrator>>

\* _target has returned: the worker thread is no longer alive.
WorkerExit ==
    /\ progress.thread = "alive"
    /\ progress.fn_runs > 0
    /\ progress' = [progress EXCEPT !.thread = "dead"]
    /\ UNCHANGED <<command, entries, finished, bpc, current, started,
                   run_dirs, rows, summary, pure, orchestrator>>

\* One turn of `while thread.is_alive()`: the spinner is drawn and
\* thread.join(0.2) times out.
ProgressSpin ==
    /\ bpc = "running"
    /\ progress.thread = "alive"
    /\ progress.spins < MaxSpins
    /\ progress' = [progress EXCEPT !.spins = @ + 1]
    /\ UNCHANGED <<command, entries, finished, bpc, current, started,
                   run_dirs, rows, summary, pure, orchestrator>>

\* Mutant: the caller leaves the loop without the thread having ended.
WorkerJoined_no_wait(p) == TRUE

\* `while thread.is_alive()` is left.
WorkerJoined(p) == p.thread = "dead"

\* What _run_with_progress gives its caller from `state`; a result of None
\* cannot be unpacked into (response, preprocessed_inputs).
SlotOutcome(slot) ==
    IF slot.error # "" THEN [kind |-> "raised", error |-> slot.error]
    ELSE IF slot.result = "None"
         THEN [kind |-> "raised",
               error |-> "cannot unpack non-iterable NoneType object"]
    ELSE [kind |-> "returned", error |-> ""]

\* The try block after _run_with_progress: a response goes on to be
\* persisted, an exception goes to the except block, which appends the
\* failed row.
AfterProgress(got) ==
    IF got.kind = "returned"
    THEN /\ current' = got
         /\ bpc' = "persist"
         /\ UNCHANGED <<rows, finished>>
    ELSE /\ rows' = Append(rows, Row(entries[Position], "failed", "",
                                     got.error))
         /\ finished' = Position
         /\ bpc' = AfterEntry
         /\ current' = NoOutcome

\* _run_with_progress ends: with quiet set this is `return fn()`, else the
\* loop is left and `state` is read.
BatchRunEnds ==
    /\ bpc = "running"
    /\ \/ /\ progress.quiet
          /\ \E o \in OrchestratorOutcomes :
                /\ progress' = [progress EXCEPT !.did = o, !.fn_runs = @ + 1]
                /\ AfterProgress(o)
       \/ /\ ~progress.quiet
          /\ WorkerJoined(progress)
          /\ AfterProgress(SlotOutcome(progress.slot))
          /\ UNCHANGED progress
    /\ UNCHANGED <<command, entries, started, run_dirs, summary, pure,
                   orchestrator>>

\* persist_run and cleanup_temp_files, then the ok row; persist_run raising
\* goes to the except block.
BatchPersist ==
    /\ bpc = "persist"
    /\ \E written \in BOOLEAN :
          IF written
          THEN /\ run_dirs' = run_dirs \cup {Position}
               /\ rows' = Append(rows, Row(entries[Position], "ok",
                                           RunDir(Position), ""))
          ELSE /\ rows' = Append(rows, Row(entries[Position], "failed", "",
                                           "persist_run failed"))
               /\ UNCHANGED run_dirs
    /\ finished' = Position
    /\ bpc' = AfterEntry
    /\ current' = NoOutcome
    /\ UNCHANGED <<command, entries, started, summary, progress, pure,
                   orchestrator>>

\* summarize_results(rows, ...) after the loop.
BatchSummarize ==
    /\ bpc = "summarize"
    /\ summary' = rows
    /\ bpc' = "done"
    /\ UNCHANGED <<command, entries, finished, current, started, run_dirs,
                   rows, progress, pure, orchestrator>>

BatchNext ==
    \/ BatchConstruct
    \/ BatchStartRun
    \/ WorkerTarget
    \/ WorkerExit
    \/ ProgressSpin
    \/ BatchRunEnds
    \/ BatchPersist
    \/ BatchSummarize

BatchSpec == BatchInit /\ [][BatchNext]_vars

-----------------------------------------------------------------------------
(* Properties. *)

Requests_sent == http.sync_post + http.create_post + http.poll_get
                 + http.fetch_get

IsConfigError(e) ==
    /\ e.type = "ValueError"
    /\ \/ EndsWith(e.msg, "_API_KEY is missing")
       \/ StartsWith(e.msg, "Missing endpoint URL for ")
       \/ StartsWith(e.msg, "Unsupported task_type: ")

RunReturned == pc = "returned" \/ (pc = "done" /\ response # NoResponse)

\* C1: once the orchestrator call is over, by a return or by an exception,
\* no temporary file created for it exists any more.
C1_TempFilesDeleted == pc = "done" => files = {}

\* C2: an adapter whose API key is empty sends no HTTP request, neither a
\* POST nor a GET, in any generate call.
C2_NoRequestWithoutKey == adapter.api_key = "" => Requests_sent = 0

\* C3: with max_retries >= 1, a generate call that raised a configuration
\* error is the only generate call of its run.
C3_ConfigErrorNotRetried ==
    (max_retries >= 1 /\ IsConfigError(gen_error)) => calls = 1

C5_TaskFailureEndsCall ==
    (poll_ok /\ \E st \in {"FAILED", "CANCELED", "CANCELLED"} :
                   _extract_task_status(poll_raw) = st) =>
        /\ gpc = "idle"
        /\ pc # "generate"
        /\ gen_error.type = "RuntimeError"
        /\ EndsWith(gen_error.msg, PyStr(poll_raw))
        /\ response = NoResponse

C5_Witness ==
    /\ poll_raw = StatusBody(JStr("Failed"), JNull)
    /\ poll_ok
    /\ http.poll_get = 2
    /\ gen_error.type = "RuntimeError"

\* C6: TimeoutError is raised at the deadline and only when no poll of the
\* call reported a terminal status; a RuntimeError after a poll that
\* answered ok means the task reported FAILED, CANCELED or CANCELLED.
C6_TimeoutDistinct ==
    /\ gen_error.type = "TimeoutError" =>
          /\ http.terminal = 0
          /\ http.create_post = 1
          /\ clock >= deadline
    /\ gpc = "poll" => http.terminal = 0
    /\ (gen_error.type = "RuntimeError" /\ http.poll_get > 0 /\ poll_ok) =>
          /\ http.terminal = 1
          /\ \E st \in {"FAILED", "CANCELED", "CANCELLED"} :
                _extract_task_status(poll_raw) = st

C6_Witness ==
    /\ gen_error.type = "TimeoutError"
    /\ http.poll_get >= 1
    /\ poll_ok

\* C7: _poll_task always terminates: a call that is in the poll loop leaves
\* it, whatever the server answers.
C7_PollTerminates == (gpc = "poll") ~> (gpc # "poll")

C7_Witness ==
    /\ gen_error.type = "TimeoutError"
    /\ http.poll_get >= 2
    /\ _extract_task_status(poll_raw) = "RUNNING"

\* The task id as the claim reads it: output.task_id first, the top-level
\* task_id second, a non-blank string.
NonBlankString(v) ==
    IsStr(v) /\ \E i \in 1..Len(v.s) : CharAt(v.s, i) \notin Whitespace

TaskIdOf(raw) ==
    LET inner == DictGet(DictGet(raw, "output"), "task_id")
        outer == DictGet(raw, "task_id")
    IN  IF NonBlankString(inner) THEN StrStrip(inner.s)
        ELSE IF NonBlankString(outer) THEN StrStrip(outer.s)
        ELSE NoneStr

AsyncCallStarted ==
    adapter.provider = "alibaba" /\ adapter.async_mode /\ calls > 0
    /\ gpc # "async"

PollNeedsTaskId ==
    /\ http.poll_get > 0 =>
          /\ http.create_post = 1
          /\ create_ok
          /\ TaskIdOf(create_raw) # NoneStr
          /\ task_id = TaskIdOf(create_raw)
    /\ (gpc # "async" /\ http.create_post = 1 /\ create_raw # JNull
        /\ (~create_ok \/ TaskIdOf(create_raw) = NoneStr)) =>
          /\ gpc = "idle"
          /\ gen_error.type = "RuntimeError"
          /\ http.poll_get = 0

C9_ModeSelection ==
    adapter.provider = "alibaba" =>
        /\ adapter.async_mode => http.sync_post = 0
        /\ (~adapter.async_mode
            /\ (http.create_post > 0 \/ gpc \in {"async", "poll"})) =>
              /\ http.sync_post = 1
              /\ sync_exc.type = "RuntimeError"
              /\ Contains(sync_exc.msg, "does not support synchronous calls")
        /\ (~adapter.async_mode /\ calls > 0 /\ gpc # "sync"
            /\ ~Contains(sync_exc.msg, "does not support synchronous calls")) =>
              /\ gpc = "idle"
              /\ http.create_post = 0
              /\ sync_exc # NoError => gen_error = sync_exc

C9_Witness ==
    /\ adapter.provider = "alibaba"
    /\ ~adapter.async_mode
    /\ http.sync_post = 1
    /\ http.create_post = 1
    /\ pc = "done"
    /\ outcome = "returned"

\* C10: for max_retries >= 0 generate is called at least once and at most
\* max_retries + 1 times, no call follows one that returned, there is one
\* sleep before every call but the first and none after the last, and the
\* RuntimeError wrapping the last error is raised only after
\* max_retries + 1 failed calls.
C10_RetryBudget ==
    max_retries >= 0 =>
        /\ calls <= max_retries + 1
        /\ sleeps = attempt
        /\ sleeps <= max_retries
        /\ pc \in {"generate", "returned", "sleep", "done"} =>
              calls = attempt + 1
        /\ pc = "done" => calls >= 1
        /\ RunReturned => (gen_error = NoError /\ raised.type # "RuntimeError")
        /\ raised.type = "RuntimeError" =>
              /\ calls = max_retries + 1
              /\ sleeps = max_retries
              /\ response = NoResponse
              /\ last_error # NoError
              /\ gen_error = last_error
              /\ raised.msg = "Request failed after retries: "
                              \o last_error.msg

C10_Witness ==
    /\ max_retries = 1
    /\ pc = "done"
    /\ outcome = "returned"
    /\ calls = 2
    /\ sleeps = 1
    /\ last_error.type = "RuntimeError"

\* The preprocessor's claims read the state right after Prepare.
WasPrepared == pc = "attempt" /\ calls = 0

AutoCropApplies ==
    /\ request.provider = "alibaba"
    /\ request.task_type = "image_to_image"
    /\ request.input_image \notin {NoneStr, ""}
    /\ autocrop_enabled
    /\ source_image # NoSize

Target ==
    _resolve_target_size(source_image[1], source_image[2],
                         _parse_size(request.size))

WxH(size) == ToString(size[1]) \o "x" \o ToString(size[2])

ClampSide(v) == IF v < 512 THEN 512 ELSE IF v > 2048 THEN 2048 ELSE v

C13_Admission ==
    (WasPrepared /\ AutoCropApplies) =>
        /\ Target[1] >= 512 /\ Target[1] <= 2048
        /\ Target[2] >= 512 /\ Target[2] <= 2048
        /\ prepared.size = WxH(Target)
        /\ ImageAt(prepared.input_image) = Target

C13_Witness ==
    /\ WasPrepared
    /\ AutoCropApplies
    /\ source_image = <<5000, 1000>>
    /\ request.size = NoneStr
    /\ prepared.size = "2048x512"
    /\ temp_image = <<2048, 512>>

SameSizeNoPersist ==
    WasPrepared /\ AutoCropApplies /\ Target = source_image
    /\ ~persist_enabled

\* C14 as claimed: with the target equal to the source and persistence off
\* the original request comes back with every field as it was, and so does
\* a second application.
C14_ReturnsOriginal ==
    SameSizeNoPersist =>
        /\ prepared = request
        /\ cleanup_paths = <<>>
        /\ reprepared # NoPreparation => reprepared.request = request

\* C14 as amended: with the target equal to the source and persistence off
\* the returned request equals the original except that its size is the
\* target text "WxH" (so it equals the original when the size already was
\* that text), input_image is the original's, the cleanup list is empty and
\* no file is written; a second application returns the first result
\* again.
C14_SizeNormalizedOnly ==
    SameSizeNoPersist =>
        /\ prepared = [request EXCEPT !.size = WxH(source_image)]
        /\ prepared.input_image = request.input_image
        /\ request.size = WxH(source_image) => prepared = request
        /\ cleanup_paths = <<>>
        /\ files = {}
        /\ reprepared # NoPreparation =>
              /\ reprepared.request = prepared
              /\ reprepared.cleanup = <<>>

C14_Witness ==
    /\ SameSizeNoPersist
    /\ source_image = <<1024, 1024>>
    /\ request.size = NoneStr
    /\ prepared.size = "1024x1024"
    /\ reprepared # NoPreparation
    /\ reprepared.request = prepared

RequestedEqualsSource ==
    WasPrepared /\ AutoCropApplies /\ _parse_size(request.size) = source_image

\* C15 as claimed: a requested size equal to the source is only clamped,
\* each side on its own, into [512, 2048].
C15_EqualSizeOnlyClamps ==
    RequestedEqualsSource =>
        prepared.size = WxH(<<ClampSide(source_image[1]),
                              ClampSide(source_image[2])>>)

\* C15 as amended: a requested size equal to the source takes the
\* fit-to-bounds branch, with the same target as when no size is requested.
C15_EqualSizeFits ==
    RequestedEqualsSource =>
        /\ Target = _fit_size_within_bounds(source_image[1], source_image[2])
        /\ Target = _resolve_target_size(source_image[1], source_image[2],
                                         NoSize)
        /\ prepared.size = WxH(Target)

C15_Witness ==
    /\ RequestedEqualsSource
    /\ source_image = <<3242, 2160>>
    /\ request.size = "3242x2160"
    /\ prepared.size = "2048x1364"

\* Whether `got` is `side * 2048 / larger` rounded to a nearest integer.
ScaledSide(got, side, larger) ==
    /\ 2 * (got * larger - side * 2048) <= larger
    /\ 2 * (side * 2048 - got * larger) <= larger

\* C16: a fitted source whose larger side exceeds 2048 and whose aspect
\* ratio is at most 4:1 gets 2048 as its larger side and the other side
\* scaled by the same factor and rounded; 3242x2160 gives 2048x1364.
C16_FitDownscale ==
    (WasPrepared /\ AutoCropApplies
     /\ _parse_size(request.size) \in {NoSize, source_image}
     /\ Max(source_image[1], source_image[2]) > 2048
     /\ Max(source_image[1], source_image[2])
            <= 4 * Min(source_image[1], source_image[2])) =>
        LET w == source_image[1]
            h == source_image[2]
        IN  /\ w >= h => /\ temp_image[1] = 2048
                         /\ ScaledSide(temp_image[2], h, w)
            /\ h >= w => /\ temp_image[2] = 2048
                         /\ ScaledSide(temp_image[1], w, h)
            /\ source_image = <<3242, 2160>> => temp_image = <<2048, 1364>>
            /\ prepared.size = WxH(temp_image)

C16_Witness ==
    /\ WasPrepared
    /\ AutoCropApplies
    /\ source_image = <<3242, 2160>>
    /\ request.size = NoneStr
    /\ temp_image = <<2048, 1364>>
    /\ prepared.size = "2048x1364"

\* C17: a parsable requested size different from the source gives the
\* target (clamp(width), clamp(height)), each side clamped on its own.
C17_ExplicitSizeClamped ==
    (WasPrepared /\ AutoCropApplies
     /\ _parse_size(request.size) \notin {NoSize, source_image}) =>
        LET requested == _parse_size(request.size)
        IN  /\ Target = <<ClampSide(requested[1]), ClampSide(requested[2])>>
            /\ prepared.size = WxH(<<ClampSide(requested[1]),
                                     ClampSide(requested[2])>>)

C17_Witness ==
    /\ WasPrepared
    /\ AutoCropApplies
    /\ source_image = <<3242, 2160>>
    /\ request.size = "100x5000"
    /\ prepared.size = "512x2048"

\* C18: when auto-crop applies and the target differs from the source,
\* preparing creates exactly one new temporary file; the returned
\* input_image is its path and not the original input_image, the returned
\* size is the target text, the cleanup list holds exactly that path, and
\* the original request keeps its size and input_image.
C18_NewTempFile ==
    [][(pc = "start" /\ AutoCropApplies /\ Target # source_image) =>
          /\ Cardinality(files' \ files) = 1
          /\ \E path \in files' \ files :
                /\ prepared'.input_image = path
                /\ cleanup_paths' = <<path>>
                /\ path # request.input_image
          /\ prepared'.size = WxH(Target)
          /\ temp_image' = Target
          /\ request' = request]_vars

C18_Witness ==
    /\ WasPrepared
    /\ AutoCropApplies
    /\ source_image = <<3242, 2160>>
    /\ request.size = "1024x1024"
    /\ prepared.input_image = "/tmp/igt_autocrop_1.png"
    /\ cleanup_paths = <<"/tmp/igt_autocrop_1.png">>
    /\ files = {"/tmp/igt_autocrop_1.png"}
    /\ request.input_image = "in.png"

\* C19: constructing an image_to_image request fails when input_image is
\* absent, empty or made of whitespace only.
C19_BlankInputRejected ==
    (call.fn = "GenerationRequest" /\ result.done
     /\ call.task_type = "image_to_image"
     /\ (call.input_image = NoneStr
         \/ \A i \in 1..Len(call.input_image) :
               CharAt(call.input_image, i) \in Whitespace)) =>
        ~result.ok

\* The rule of the claim: marked key and http(s) value, or data:image/
\* value, or base64 key and more than 100 characters.
ClaimedImage(key, value) ==
    \/ /\ \E mark \in {"image", "img", "url", "output", "result", "generated"} :
             Contains(StrLower(key), mark)
       /\ StartsWith(value, "http://") \/ StartsWith(value, "https://")
    \/ StartsWith(value, "data:image/")
    \/ /\ Contains(StrLower(key), "b64") \/ Contains(StrLower(key), "base64")
       /\ Len(value) > 100

\* C20: _looks_like_image(key, value) is true exactly when the claim's rule
\* holds of the key and the value.
C20_ExactlyTheRule ==
    (call.fn = "_looks_like_image" /\ result.done) =>
        (result.ok <=> ClaimedImage(call.key, call.value))

\* The command is over: summarize_results ran, or an exception left it.
CommandOver == bpc \in {"done", "aborted"}

\* Row i is the row of entry i, with a status and, when failed, its error.
RowOf(i) ==
    /\ rows[i].provider = entries[i].provider
    /\ rows[i].model = entries[i].model
    /\ rows[i].prompt = entries[i].prompt
    /\ rows[i].status \in {"ok", "failed"}
    /\ rows[i].status = "failed" => rows[i].error # ""

\* C11: a batch or compare run that is over has exactly one result row per
\* input prompt or target, in input order, each with status ok or failed and
\* a failed one with its error string, so that a failed entry does not
\* prevent the later ones; and entry i+1 is not started before entry i has
\* finished.
C11_OneRowPerEntry ==
    /\ CommandOver =>
          /\ Len(rows) = Len(entries)
          /\ \A i \in 1..Len(rows) : RowOf(i)
    /\ Len(started) <= finished + 1
    /\ \A i \in 1..Len(started) : started[i] = i

\* extract_images of either adapter has returned.
ImagesReturned ==
    call.fn \in {"extract_images", "google.extract_images"} /\ result.done

IsHttpUrl(s) == StartsWith(s, "http://") \/ StartsWith(s, "https://")

\* data:image/<subtype>;base64,<payload> with a subtype.
IsImageDataUri(s) ==
    /\ StartsWith(s, "data:image/")
    /\ \E k \in 13..Len(s) : SubSeq(s, k, k + 7) = ";base64,"

First(seq, x) ==
    CHOOSE k \in 1..Len(seq) :
        seq[k] = x /\ \A m \in 1..(k - 1) : seq[m] # x

\* out holds each value of seq once, ordered by first occurrence in seq.
FirstOccurrences(out, seq) ==
    /\ \A i, j \in 1..Len(out) : i # j => out[i] # out[j]
    /\ {out[i] : i \in 1..Len(out)} = {seq[i] : i \in 1..Len(seq)}
    /\ \A i, j \in 1..Len(out) :
          i < j => First(seq, out[i]) < First(seq, out[j])

\* C22: extract_images returns the values of the traversal without
\* duplicates, each at the position of its first occurrence; the Google
\* adapter returns the generic results first, then the data URIs made from
\* inlineData / inline_data objects, de-duplicated again by first occurrence.
C22_FirstOccurrenceOrder ==
    /\ (call.fn = "extract_images" /\ result.done) =>
          FirstOccurrences(returned, _walk_and_collect(call.raw))
    /\ (call.fn = "google.extract_images" /\ result.done) =>
          LET generic == extract_images(call.raw)
          IN  /\ FirstOccurrences(generic, _walk_and_collect(call.raw))
              /\ FirstOccurrences(returned,
                                  generic \o _walk_inline_data(call.raw))
              /\ SubSeq(returned, 1, Len(generic)) = generic

C22_Witness ==
    /\ call.fn = "google.extract_images"
    /\ result.done
    /\ Len(returned) = 2
    /\ Len(_walk_inline_data(call.raw)) = 3
    /\ extract_images(call.raw) = <<returned[1]>>

\* The identifier the claim names: the stripped value of the first of
\* `names` that holds a non-blank string, else the generated identifier.
ClaimedRequestId(raw, names, uid) ==
    LET holds(i) == /\ IsStr(DictGet(raw, names[i]))
                    /\ StrStrip(DictGet(raw, names[i]).s) # ""
        good == IF IsDict(raw) THEN {i \in 1..Len(names) : holds(i)} ELSE {}
    IN  IF good = {} THEN uid
        ELSE StrStrip(DictGet(raw, names[CHOOSE i \in good :
                                            \A j \in good : i <= j]).s)

\* C23: extract_request_id returns the stripped value of the first of
\* request_id, id, task_id (then responseId for Google) that holds a
\* non-blank string, whatever the order of the keys in the body, and the
\* generated 12-character identifier only when there is none.
C23_RequestIdPrecedence ==
    /\ (call.fn = "extract_request_id" /\ result.done) =>
          returned = ClaimedRequestId(call.raw,
                                      <<"request_id", "id", "task_id">>,
                                      call.uid)
    /\ (call.fn = "google.extract_request_id" /\ result.done) =>
          returned = ClaimedRequestId(call.raw,
                         <<"request_id", "id", "task_id", "responseId">>,
                         call.uid)
    /\ call.fn \in {"extract_request_id", "google.extract_request_id"} =>
          Len(call.uid) = 12

C23_Witness ==
    /\ call.fn = "extract_request_id"
    /\ result.done
    /\ returned = "req-1"
    /\ DictGet(call.raw, "request_id") = JStr(" req-1 ")

\* The (key, string) pairs of the body: the strings that are the direct
\* value of a key of some object; and the strings that are the direct
\* element of some array.
RECURSIVE KeyedStrings(_)
KeyedStrings(node) ==
    IF node.t \notin {"dict", "list"} THEN {}
    ELSE UNION {IF node.t = "dict" /\ IsStr(node.kids[i])
                THEN {<<node.keys[i], node.kids[i].s>>}
                ELSE KeyedStrings(node.kids[i]) : i \in 1..Len(node.kids)}

RECURSIVE ListStrings(_)
ListStrings(node) ==
    IF node.t \notin {"dict", "list"} THEN {}
    ELSE UNION {IF node.t = "list" /\ IsStr(node.kids[i])
                THEN {node.kids[i].s}
                ELSE ListStrings(node.kids[i]) : i \in 1..Len(node.kids)}

\* C30: the walk collects exactly the strings that are the direct value of
\* an object key and look like an image under that key, objects nested in
\* arrays included; a string that is a direct element of an array is not
\* collected for being there.
C30_OnlyKeyedStrings ==
    (call.fn = "extract_images" /\ result.done) =>
        {returned[i] : i \in 1..Len(returned)}
            = {p[2] : p \in {q \in KeyedStrings(call.raw) :
                                _looks_like_image(q[1], q[2])}}

C30_Witness ==
    /\ call.fn = "extract_images"
    /\ result.done
    /\ returned # <<>>
    /\ \E s \in ListStrings(call.raw) :
          /\ IsHttpUrl(s)
          /\ \A i \in 1..Len(returned) : returned[i] # s

\* build_payload has returned for a request without extra.
PayloadBuilt ==
    call.fn = "build_payload" /\ result.done /\ call.extra = NoExtra

\* text is size with every x replaced by * and nothing else changed.
StarForX(text, size) ==
    /\ Len(text) = Len(size)
    /\ \A i \in 1..Len(size) :
          IF CharAt(size, i) = "x" THEN CharAt(text, i) = "*"
          ELSE CharAt(text, i) = CharAt(size, i)

\* C24: for a request with empty extra the parameters block of the Alibaba
\* payload has enable_interleave = (task_type is not image_to_image) and
\* watermark false, exactly one of max_images (when interleaving) and n,
\* equal to request.n, size with * for x exactly when the request has a
\* size, and seed / negative_prompt exactly when the request has them.
C24_AlibabaParameters ==
    PayloadBuilt =>
        LET parameters == DictGet(returned, "parameters")
            interleave == call.task_type # TASK_IMAGE2IMAGE
            count == IF interleave THEN "max_images" ELSE "n"
            other == IF interleave THEN "n" ELSE "max_images"
        IN  /\ IsDict(parameters)
            /\ DictGet(parameters, "enable_interleave") = JBool(interleave)
            /\ DictGet(parameters, "watermark") = JBool(FALSE)
            /\ DictGet(parameters, count) = JNum(call.n)
            /\ ~HasKey(parameters, other)
            /\ HasKey(parameters, "size") <=> call.size # NoneStr
            /\ HasKey(parameters, "size") =>
                  /\ IsStr(DictGet(parameters, "size"))
                  /\ StarForX(DictGet(parameters, "size").s, call.size)
            /\ HasKey(parameters, "seed") <=> call.seed # JNull
            /\ HasKey(parameters, "seed") =>
                  DictGet(parameters, "seed") = call.seed
            /\ HasKey(parameters, "negative_prompt")
                  <=> call.negative_prompt # NoneStr
            /\ HasKey(parameters, "negative_prompt") =>
                  DictGet(parameters, "negative_prompt")
                      = JStr(call.negative_prompt)
            /\ \A i, j \in 1..Len(parameters.keys) :
                  i # j => parameters.keys[i] # parameters.keys[j]
            /\ \A i \in 1..Len(parameters.keys) :
                  parameters.keys[i] \in
                      {"enable_interleave", "watermark", "size", "max_images",
                       "n", "seed", "negative_prompt"}

\* The example of the claim, and a request whose seed is 0.
C24_Witness ==
    /\ PayloadBuilt
    /\ call.task_type = TASK_TEXT2IMAGE
    /\ call.size = "1024x1024" /\ call.n = 2 /\ call.seed = JNum(7)
    /\ DictGet(returned, "parameters")
          = JDict(<<"enable_interleave", "watermark", "size", "max_images",
                    "seed">>,
                  <<JBool(TRUE), JBool(FALSE), JStr("1024*1024"), JNum(2),
                    JNum(7)>>)

\* A (width, height) pair as the codec returns it.
IsDimensions(value) ==
    /\ Len(value) = 2
    /\ \A k \in 1..2 :
          /\ Len(value[k]) = 2
          /\ value[k][1] \in 0..65535
          /\ value[k][2] \in 0..65535

\* C25: on every buffer _extract_dimensions reads only inside the buffer,
\* raises nothing and returns a (width, height) pair or None; every
\* iteration of the JPEG marker scan leaves the index larger than it found
\* it and inside the buffer, and the call ends.
C25_CodecTotal ==
    /\ [](call.fn = "_extract_dimensions" =>
            /\ scan.fault = ""
            /\ scan.i <= Len(call.data)
            /\ scan.steps <= Len(call.data)
            /\ result.done =>
                  /\ result.ok
                  /\ returned = NoValue \/ IsDimensions(returned))
    /\ [][(call.fn = "_extract_dimensions" /\ scan.parser = "scan"
             /\ scan.i + 9 < Len(call.data)) => scan'.i > scan.i]_vars
    /\ (call.fn = "_extract_dimensions") ~> result.done

\* A malformed JPEG whose scan ran three times and gave None.
C25_Witness ==
    /\ call.fn = "_extract_dimensions"
    /\ result.done /\ result.ok
    /\ returned = NoValue
    /\ scan.steps >= 3
    /\ Slice(call.data, 0, 2) = <<255, 216>>

\* A step in which _poll_task issued a GET.
GetIssued == http'.poll_get = http.poll_get + 1

Is2xx(status) == 200 <= status /\ status < 300

TerminalStatuses == SuccessStatuses \cup FailureStatuses

\* C26 as stated: a 2xx poll answer whose task status is not terminal does
\* not end the call: the adapter sleeps poll_interval_seconds and is back at
\* the head of the loop, polling the same task URL.
C26_NonTerminalPollsAgain ==
    [][(/\ GetIssued
        /\ Is2xx(http'.poll_status)
        /\ _extract_task_status(poll_raw') \notin TerminalStatuses) =>
           /\ pc' = "generate"
           /\ gpc' = "poll"
           /\ clock' >= Min(clock + 1 + adapter.poll_interval_seconds, ClockCap)
           /\ http.poll_get > 0 => http'.poll_url = http.poll_url]_vars

\* C28 as stated: a poll answer with a status outside 200..299 ends the call
\* at once with a RuntimeError carrying the status code and at most 500
\* characters of the body, whatever task status the body names.
C28_Non2xxPollEndsCall ==
    [][(GetIssued /\ http'.poll_status # 0 /\ ~Is2xx(http'.poll_status)) =>
           /\ gpc' = "idle"
           /\ gen_error'.type = "RuntimeError"
           /\ Contains(gen_error'.msg,
                       "status=" \o ToString(http'.poll_status) \o " body=")
           /\ Len(gen_error'.msg)
                <= Len(adapter.provider \o " async poll error status="
                       \o ToString(http'.poll_status) \o " body=") + 500]_vars

\* C29: a poll GET is issued only from a clock check that found the
\* deadline not reached; the answer of a GET is acted on without looking at
\* the clock again, so a terminal status ends the call as success or task
\* failure even when the deadline has passed meanwhile; with a poll timeout
\* of zero or less no GET is issued and the call ends in TimeoutError
\* although the task was created.
C29_DeadlineBeforeGet ==
    /\ [](adapter.poll_timeout_seconds <= 0 => http.poll_get = 0)
    /\ [][GetIssued => (gpc = "poll" /\ clock < deadline)]_vars
    /\ [][(GetIssued /\ poll_ok'
             /\ _extract_task_status(poll_raw') \in SuccessStatuses) =>
              (pc' = "returned" /\ response'.request_id = task_id)]_vars
    /\ [][(GetIssued /\ poll_ok'
             /\ _extract_task_status(poll_raw') \in FailureStatuses) =>
              (gen_error'.type = "RuntimeError"
               /\ StartsWith(gen_error'.msg,
                             adapter.provider \o " async task failed: "))]_vars
    /\ [][(gpc = "poll" /\ gpc' # "poll"
             /\ adapter.poll_timeout_seconds <= 0) =>
              /\ gen_error'.type = "TimeoutError"
              /\ http'.create_post = 1
              /\ create_ok /\ task_id # NoneStr]_vars

\* A task reported as succeeded by a GET that came back after the deadline.
C29_Witness ==
    /\ response # NoResponse
    /\ http.poll_get >= 1
    /\ poll_ok
    /\ _extract_task_status(poll_raw) \in SuccessStatuses
    /\ clock >= deadline
    /\ adapter.poll_timeout_seconds > 0

\* _run_with_progress has given its caller something for the current entry.
ProgressOver == bpc \in {"persist", "construct", "summarize", "done"}

\* What the caller of _run_with_progress got for the last entry started.
Given ==
    IF bpc = "persist" THEN current
    ELSE [kind |-> "raised", error |-> rows[Len(rows)].error]

====
